---------------------------- MODULE Spec2Model ----------------------------
(***************************************************************************)
(* A model of the goscript bytecode generator (codegen/src/codegen.rs) and *)
(* of the runtime object model it targets (vm/src/objects.rs).             *)
(*                                                                         *)
(* The module holds several state machines over one set of variables:      *)
(*   SpecSlice   the shared-buffer slices of SliceObj                      *)
(*   SpecGrow    the capacity loop of SliceObj::try_grow_vec               *)
(*   SpecMap     MapObj and its shared hash tables                         *)
(*   SpecUpValue UpValue, WeakUpValue and ClosureObj                       *)
(*   SpecPackage PackageVal                                                *)
(*   SpecPkgGen  gen_with_files filling a package                          *)
(*   SpecFunc    the constant pool and entity table of FunctionVal         *)
(*   SpecAssign  gen_assign / gen_assign_def_var / gen_op_assign and the   *)
(*               execution of the instructions they emit                   *)
(*   SpecSwitch  gen_switch_body and the execution of its output           *)
(*   SpecRange   visit_stmt_range and the execution of its output          *)
(*   SpecSelect  visit_stmt_select and the execution of its output         *)
(*   SpecCast    try_cast_params_to_iface on the arguments of a call       *)
(*   SpecForms   every statement form that reaches gen_assign              *)
(*   SpecResolve resolve_var_ident over the stack of nested functions      *)
(*   SpecLabel   visit_stmt_labeled on every kind of statement             *)
(*   SpecSelector visit_expr_selector on method and field selectors        *)
(*   SpecString  StringObj: with_str, slice, as_str                        *)
(* Code positions are 0-based as in the source: instruction i of a         *)
(* function is code[i + 1].                                                *)
(***************************************************************************)
EXTENDS Integers, Sequences, FiniteSets, TLC

VARIABLES
    slices,   \* SliceObj values: [begin, end, soft_cap, vec]
    vecs,     \* the heap of backing buffers (Rc<RefCell<GosVec>>), by id
    status,   \* "ok", "panic" (assert / index out of range), "hang"
    lastOp,   \* the last operation on an object and what it was applied to
    nops,     \* how many operations on objects have been applied
    maps,     \* MapObj values: [default_val, map]
    tables,   \* the heap of hash tables (Rc<RefCell<GosHashMap>>), by id
    cells,    \* the heap of upvalue states (Rc<RefCell<UpValueState>>), by id
    upvalues, \* UpValue handles: the id of the cell, 0 once dropped
    weaks,    \* WeakUpValue handles: the id of the cell
    closures, \* ClosureObj values: [func, upvalues, descs]
    package,  \* a PackageVal: [members, member_indices, var_mapping]
    func,     \* a FunctionVal: [consts, entities, local_alloc, up_ptrs]
    func_stack, \* CodeGen.func_stack: the functions being generated
    calls,    \* CodeGen.call_helper: the method binds to fix up
    strings,  \* StringObj values: [data, begin, end]
    stmt,     \* the statement handed to the code generator
    code,     \* FunctionVal.code of the current function
    phase,    \* "gen" before the generator ran, "run" after, "done" at the end
    pc,       \* position of the executing frame in code
    stack,    \* the evaluation stack, as a sequence of symbolic values
    trace     \* what the executed instructions did, in order

vars ==
    <<slices, vecs, status, lastOp, nops, maps, tables,
      cells, upvalues, weaks, closures, package, func, func_stack, calls, strings,
      stmt, code, phase, pc, stack, trace>>

sliceVars == <<slices, vecs, status, lastOp, nops>>
mapVars == <<maps, tables>>
upVars == <<cells, upvalues, weaks, closures>>
funcVars == <<func, func_stack, calls>>
objVars == <<mapVars, upVars, package, funcVars, strings>>
genVars == <<stmt, code, phase, pc, stack, trace>>

\* ------------------------------------------------------------------------
\* Bounds

MaxSlices == 2
MaxVecs == 2
MaxVecLen == 3
MaxOps == 4

Vals == {1, 2}

\* ------------------------------------------------------------------------
\* Helpers of the model

NoneVal == 0

Min(a, b) == IF a < b THEN a ELSE b

Max(a, b) == IF a > b THEN a ELSE b

RECURSIVE SeqSum(_)
SeqSum(s) == IF s = <<>> THEN 0 ELSE Head(s) + SeqSum(Tail(s))

RECURSIVE Flatten(_)
Flatten(ss) == IF ss = <<>> THEN <<>> ELSE Head(ss) \o Flatten(Tail(ss))

SeqsUpTo(S, n) == UNION {[1..k -> S] : k \in 0..n}

SliceIdle ==
    /\ slices = <<>>
    /\ vecs = <<>>
    /\ status = "ok"
    /\ lastOp = [op |-> "none"]
    /\ nops = 0

MapIdle ==
    /\ maps = <<>>
    /\ tables = <<>>

\* Option<HashMap>: None
NoMapping == [some |-> FALSE, map |-> <<>>]

\* PackageVal::new
PackageVal_new ==
    [members |-> <<>>, member_indices |-> <<>>,
     var_mapping |-> [some |-> TRUE, map |-> <<>>]]

PkgIdle == package = PackageVal_new

\* FunctionVal::new: no constants, no entities, no locals, no upvalues
FunctionVal_new ==
    [consts |-> <<>>, entities |-> <<>>, local_alloc |-> 0, up_ptrs |-> <<>>]

FuncIdle ==
    /\ func = FunctionVal_new
    /\ func_stack = <<>>
    /\ calls = <<>>

UpIdle ==
    /\ cells = <<>>
    /\ upvalues = <<>>
    /\ weaks = <<>>
    /\ closures = <<>>

StrIdle == strings = <<>>

ObjIdle == MapIdle /\ UpIdle /\ PkgIdle /\ FuncIdle /\ StrIdle

GenIdle ==
    /\ stmt = [kind |-> "none"]
    /\ code = <<>>
    /\ phase = "idle"
    /\ pc = 0
    /\ stack = <<>>
    /\ trace = <<>>

\* ========================================================================
\* SliceObj (vm/src/objects.rs)

SliceThreshold == 1024

\* SliceObj::len; usize subtraction, so it is only defined for end >= begin
len(s) == s.end - s.begin

\* SliceObj::cap
cap(s) == s.soft_cap - s.begin

\* a window whose len() and cap() do not underflow
Windowed(s) == s.begin <= s.end /\ s.begin <= s.soft_cap

\* SliceObj::get: Vec::get on the shared buffer at begin + i
get(s, i) ==
    IF s.begin + i + 1 \in 1..Len(vecs[s.vec])
    THEN vecs[s.vec][s.begin + i + 1]
    ELSE NoneVal

\* the integers below F32Exact are all values of f32 (24-bit significand)
F32Exact == 16777216

\* the distance between neighbouring f32 values around n
RECURSIVE f32_ulp(_)
f32_ulp(n) == IF n < F32Exact THEN 1 ELSE 2 * f32_ulp(n \div 2)

\* n rounded to 24 significant bits, ties to even: `n as f32`
as_f32(n) ==
    LET u == f32_ulp(n)
        q == n \div u
        r == n % u
    IN  IF 2 * r > u \/ (2 * r = u /\ q % 2 = 1) THEN (q + 1) * u ELSE q * u

\* (cap as f32 * 1.25) as usize: the cast to f32 rounds, the product (taken
\* in quarters) rounds again, the cast back truncates
scale_cap(c) == as_f32(as_f32(c) * 5) \div 4

\* the capacity loop of try_grow_vec; -1 when the loop never ends
RECURSIVE grow_cap(_, _)
grow_cap(c, need) ==
    IF c >= need THEN c
    ELSE IF c < SliceThreshold
         THEN IF c = 0 THEN -1 ELSE grow_cap(c * 2, need)
         ELSE grow_cap(scale_cap(c), need)

\* what try_grow_vec(need) does to slice s: "keep" the buffer, "grow" into
\* a fresh one, "panic" or "hang"
try_grow_vec(s, need) ==
    IF ~Windowed(s) \/ cap(s) < len(s) THEN [r |-> "panic"]
    ELSE IF cap(s) >= need THEN [r |-> "keep"]
    ELSE IF grow_cap(cap(s), need) = -1 THEN [r |-> "hang"]
    ELSE IF s.end > Len(vecs[s.vec]) THEN [r |-> "panic"]
    ELSE [r |-> "grow",
          vec |-> SubSeq(vecs[s.vec], s.begin + 1, s.end),
          soft_cap |-> grow_cap(cap(s), need)]

Halt(st, op) ==
    /\ status' = st
    /\ lastOp' = op
    /\ UNCHANGED <<slices, vecs>>

\* SliceObj::with_data
SliceWithData(val) ==
    /\ status = "ok"
    /\ Len(slices) < MaxSlices /\ Len(vecs) < MaxVecs
    /\ vecs' = Append(vecs, val)
    /\ slices' = Append(slices, [begin |-> 0, end |-> Len(val),
                                 soft_cap |-> Len(val), vec |-> Len(vecs) + 1])
    /\ lastOp' = [op |-> "with_data", s |-> Len(slices) + 1]
    /\ UNCHANGED status

\* the vector append shared by push and append: Vec::push / Vec::append
\* add at the end of the buffer
vec_push(v, vals) == v \o vals

\* push and append: try_grow_vec, then the buffer grows at its end and the
\* window's end moves
PushAll(i, vals, opname) ==
    LET s == slices[i]
        need == len(s) + Len(vals)
        g == try_grow_vec(s, need)
        op == [op |-> opname, s |-> i, vals |-> vals,
               old |-> s, grown |-> g.r = "grow"]
    IN  /\ status = "ok"
        /\ CASE g.r = "panic" -> Halt("panic", op)
             [] g.r = "hang" -> Halt("hang", op)
             [] g.r = "keep" ->
                  /\ Len(vecs[s.vec]) + Len(vals) <= MaxVecLen
                  /\ vecs' = [vecs EXCEPT ![s.vec] = vec_push(@, vals)]
                  /\ slices' = [slices EXCEPT ![i].end = s.begin + need]
                  /\ lastOp' = op
                  /\ UNCHANGED status
             [] g.r = "grow" ->
                  /\ Len(vecs) < MaxVecs
                  /\ Len(g.vec) + Len(vals) <= MaxVecLen
                  /\ vecs' = Append(vecs, vec_push(g.vec, vals))
                  /\ slices' = [slices EXCEPT ![i] =
                                   [begin |-> 0, end |-> need,
                                    soft_cap |-> g.soft_cap,
                                    vec |-> Len(vecs) + 1]]
                  /\ lastOp' = op
                  /\ UNCHANGED status

\* SliceObj::push
SlicePush(i, v) == PushAll(i, <<v>>, "push")

\* SliceObj::append
SliceAppend(i, vals) == PushAll(i, vals, "append")

\* SliceObj::new: an empty window of soft_cap c, then n pushes of the default
SliceNew(n, c) ==
    /\ status = "ok"
    /\ n <= c
    /\ Len(slices) < MaxSlices /\ Len(vecs) < MaxVecs
    /\ vecs' = Append(vecs, [k \in 1..n |-> 1])
    /\ slices' = Append(slices, [begin |-> 0, end |-> n, soft_cap |-> c,
                                 vec |-> Len(vecs) + 1])
    /\ lastOp' = [op |-> "new", s |-> Len(slices) + 1]
    /\ UNCHANGED status

\* SliceObj::set: indexes the buffer at begin + i
SliceSet(i, k, v) ==
    LET s == slices[i]
    IN  /\ status = "ok"
        /\ IF s.begin + k + 1 \in 1..Len(vecs[s.vec])
           THEN /\ vecs' = [vecs EXCEPT ![s.vec][s.begin + k + 1] = v]
                /\ lastOp' = [op |-> "set", s |-> i, k |-> k, v |-> v]
                /\ UNCHANGED <<slices, status>>
           ELSE Halt("panic", [op |-> "set", s |-> i, k |-> k, v |-> v])

\* SliceObj::slice: ((len + 1 + end) % (len + 1)) and the same for max
slice(s, b, e, m, v) ==
    LET self_len == len(s) + 1
        self_cap == cap(s) + 1
        ei == (self_len + e) % self_len
        mi == (self_cap + m) % self_cap
    IN  [begin |-> s.begin + b, end |-> s.begin + ei,
         soft_cap |-> s.begin + mi, vec |-> v]

SliceSlice(i, b, e, m) ==
    LET s == slices[i]
    IN  /\ status = "ok"
        /\ Len(slices) < MaxSlices
        /\ IF Windowed(s)
           THEN /\ slices' = Append(slices, slice(s, b, e, m, s.vec))
                /\ lastOp' = [op |-> "slice", s |-> Len(slices) + 1,
                              from |-> i, b |-> b, e |-> e, m |-> m]
                /\ UNCHANGED <<vecs, status>>
           ELSE Halt("panic", [op |-> "slice", s |-> i])

\* Clone for SliceObj: the same window on the same buffer
SliceClone(i) ==
    /\ status = "ok"
    /\ Len(slices) < MaxSlices
    /\ slices' = Append(slices, slices[i])
    /\ lastOp' = [op |-> "clone", s |-> Len(slices) + 1, from |-> i]
    /\ UNCHANGED <<vecs, status>>

\* SliceObj::deep_clone: copies vec[begin..end], sets end and soft_cap to cap()
SliceDeepClone(i) ==
    LET s == slices[i]
    IN  /\ status = "ok"
        /\ Len(slices) < MaxSlices /\ Len(vecs) < MaxVecs
        /\ IF Windowed(s) /\ s.end <= Len(vecs[s.vec])
           THEN /\ vecs' = Append(vecs, SubSeq(vecs[s.vec], s.begin + 1, s.end))
                /\ slices' = Append(slices, [begin |-> 0, end |-> cap(s),
                                             soft_cap |-> cap(s),
                                             vec |-> Len(vecs) + 1])
                /\ lastOp' = [op |-> "deep_clone", s |-> Len(slices) + 1,
                              from |-> i]
                /\ UNCHANGED status
           ELSE Halt("panic", [op |-> "deep_clone", s |-> i])

\* SliceObj::get (and SliceRef::get) as an operation: reads, changes nothing
SliceGet(i, k) ==
    /\ status = "ok"
    /\ lastOp' = [op |-> "get", s |-> i, k |-> k, result |-> get(slices[i], k)]
    /\ UNCHANGED <<slices, vecs, status>>

SliceInit ==
    /\ SliceIdle
    /\ ObjIdle
    /\ GenIdle

\* one more operation on the slices, while the bound allows it
SliceTick ==
    /\ nops < MaxOps
    /\ nops' = nops + 1
    /\ UNCHANGED <<genVars, objVars>>

WithDataStep ==
    \E val \in SeqsUpTo(Vals, MaxVecLen - 1) : SliceWithData(val) /\ SliceTick

NewStep ==
    \E c \in 0..(MaxVecLen - 1), n \in 0..(MaxVecLen - 1) :
        SliceNew(n, c) /\ SliceTick

PushStep ==
    \E i \in 1..Len(slices), v \in Vals : SlicePush(i, v) /\ SliceTick

AppendStep ==
    \E i \in 1..Len(slices), vals \in SeqsUpTo(Vals, 2) :
        SliceAppend(i, vals) /\ SliceTick

SetStep ==
    \E i \in 1..Len(slices), k \in 0..(MaxVecLen - 1), v \in Vals :
        SliceSet(i, k, v) /\ SliceTick

\* slice is called with 0 <= begin <= end <= max <= cap, where -1 stands
\* for an end of len() and for a max of cap()
SliceStep ==
    \E i \in 1..Len(slices) :
        \E b \in 0..Max(0, cap(slices[i])),
           e \in (-1)..Max(0, cap(slices[i])),
           m \in (-1)..Max(0, cap(slices[i])) :
            /\ b <= (IF e = -1 THEN len(slices[i]) ELSE e)
            /\ (IF e = -1 THEN len(slices[i]) ELSE e)
                   <= (IF m = -1 THEN cap(slices[i]) ELSE m)
            /\ SliceSlice(i, b, e, m) /\ SliceTick

CloneStep ==
    \E i \in 1..Len(slices) : SliceClone(i) /\ SliceTick

DeepCloneStep ==
    \E i \in 1..Len(slices) : SliceDeepClone(i) /\ SliceTick

GetStep ==
    \E i \in 1..Len(slices), k \in 0..MaxVecLen : SliceGet(i, k) /\ SliceTick

SliceNext ==
    \/ WithDataStep
    \/ NewStep
    \/ PushStep
    \/ AppendStep
    \/ SetStep
    \/ SliceStep
    \/ CloneStep
    \/ DeepCloneStep
    \/ GetStep

SpecSlice == SliceInit /\ [][SliceNext]_vars

\* the last operation was a push or append that fitted in the capacity
PushedInPlace ==
    /\ status = "ok"
    /\ lastOp.op \in {"push", "append"}
    /\ ~lastOp.grown
    /\ lastOp.vals # <<>>

\* C1: after a push or append within the capacity, get(old_len + k) on the
\* slice returns the k-th appended value, and so does every slice on the same
\* buffer whose window covers that position.
C1_PushInPlaceVisible ==
    PushedInPlace =>
        LET s == slices[lastOp.s]
            old_len == len(lastOp.old)
        IN  \A k \in 1..Len(lastOp.vals) :
                /\ get(s, old_len + k - 1) = lastOp.vals[k]
                /\ \A j \in 1..Len(slices) :
                       LET t == slices[j]
                           pos == lastOp.old.begin + old_len + k - 1
                       IN  (t.vec = s.vec /\ t.begin <= pos /\ pos < t.end)
                               => get(t, pos - t.begin) = lastOp.vals[k]

\* C12: every slice has cap() >= len().  len() and cap() subtract begin in
\* usize, so a window with begin beyond end or soft_cap has no len() or
\* cap() below 2^64 at all.
C12_CapAtLeastLen ==
    \A i \in 1..Len(slices) :
        /\ Windowed(slices[i])
        /\ cap(slices[i]) >= len(slices[i])

\* C26: push and append terminate on every slice, a slice of capacity 0
\* included: the capacity loop of try_grow_vec comes to an end.
C26_PushTerminates ==
    lastOp.op \in {"push", "append"} => status # "hang"

\* C27: deep_clone returns a slice of the same len() with the same element
\* at every index below len(), on a buffer of its own.
C27_DeepCloneSameContents ==
    (lastOp.op = "deep_clone" /\ status = "ok") =>
        LET c == slices[lastOp.s]
            src == slices[lastOp.from]
        IN  /\ len(c) = len(src)
            /\ \A k \in 0..(len(src) - 1) : get(c, k) = get(src, k)
            /\ \A j \in 1..Len(slices) : j # lastOp.s => slices[j].vec # c.vec

\* C28: get(i) returns an element only for i < len(); beyond the window it
\* returns None, whatever the shared buffer holds there.
C28_GetWithinWindow ==
    (lastOp.op = "get" /\ Windowed(slices[lastOp.s])) =>
        /\ lastOp.k >= len(slices[lastOp.s]) => lastOp.result = NoneVal
        /\ lastOp.k < len(slices[lastOp.s]) => lastOp.result # NoneVal

\* ------------------------------------------------------------------------
\* The capacity loop of try_grow_vec on its own, over capacities around the
\* threshold and around the precision of f32

GrowCaps ==
    (0..4) \cup (510..514) \cup ((SliceThreshold - 2)..(SliceThreshold + 6))
    \cup ((F32Exact - 2)..(F32Exact + 6))

\* how far above the capacity the needed length lies
GrowNeeds == {1, 2, 3, 600}

GrowInit ==
    /\ slices = <<>>
    /\ vecs = <<>>
    /\ status = "ok"
    /\ nops = 0
    /\ ObjIdle
    /\ \E c \in GrowCaps, d \in GrowNeeds :
           lastOp = [op |-> "grow_in", cap |-> c, need |-> c + d]
    /\ GenIdle

\* the loop of try_grow_vec, entered with cap < len
GrowStep ==
    /\ lastOp.op = "grow_in"
    /\ lastOp' = [op |-> "grow_out", cap |-> lastOp.cap, need |-> lastOp.need,
                  new |-> grow_cap(lastOp.cap, lastOp.need)]
    /\ status' = IF grow_cap(lastOp.cap, lastOp.need) = -1 THEN "hang" ELSE "ok"
    /\ UNCHANGED <<slices, vecs, nops, genVars, objVars>>

GrowNext == GrowStep

SpecGrow == GrowInit /\ [][GrowNext]_vars

\* the capacity the claimed policy gives: doubling below the threshold,
\* times 1.25 rounded down from it on
RECURSIVE policy_cap(_, _)
policy_cap(c, need) ==
    IF c >= need \/ c = 0 THEN c
    ELSE IF c < SliceThreshold THEN policy_cap(c * 2, need)
         ELSE policy_cap((c * 5) \div 4, need)

\* C11: a push or append that needs more than the capacity reallocates to
\* the capacity found by doubling below 1024 and by multiplying by 1.25,
\* rounded down, from 1024 on, until the needed length fits; that is at
\* least twice the old capacity below the threshold and at least 1.25 times
\* (rounded down) from it on.
C11_GrowthPolicy ==
    lastOp.op = "grow_out" =>
        /\ status = "ok"
        /\ lastOp.new >= lastOp.need
        /\ lastOp.cap < SliceThreshold => lastOp.new >= 2 * lastOp.cap
        /\ lastOp.cap >= SliceThreshold =>
               lastOp.new >= (5 * lastOp.cap) \div 4
        /\ lastOp.cap > 0 =>
               lastOp.new = policy_cap(lastOp.cap, lastOp.need)

\* ========================================================================
\* MapObj (vm/src/objects.rs)
\*
\* A hash table is a function from the keys it holds to their values.

MaxMaps == 2
MaxTables == 2

Keys == {1, 2}

\* the default values a map can be configured with
Defaults == {0, 1}

\* HashMap::insert
table_insert(t, k, v) ==
    [x \in (DOMAIN t) \cup {k} |-> IF x = k THEN v ELSE t[x]]

\* MapObj::len
map_len(m) == Cardinality(DOMAIN tables[m.map])

\* MapObj::get with a lookup that fills the missing key in
map_get_filling(m, k) ==
    LET t == tables[m.map]
    IN  IF k \in DOMAIN t
        THEN [val |-> t[k], table |-> t]
        ELSE [val |-> m.default_val, table |-> table_insert(t, k, m.default_val)]

\* MapObj::get: the value found and the table as the call leaves it
map_get(m, k) ==
    LET t == tables[m.map]
    IN  [val |-> IF k \in DOMAIN t THEN t[k] ELSE m.default_val,
         table |-> t]

\* MapObj::touch_key without the test for a present key
map_touch_key_unguarded(m, k) ==
    table_insert(tables[m.map], k, m.default_val)

\* MapObj::touch_key: the table as the call leaves it
map_touch_key(m, k) ==
    LET t == tables[m.map]
    IN  IF k \notin DOMAIN t THEN table_insert(t, k, m.default_val) ELSE t

MapTick ==
    /\ nops < MaxOps
    /\ nops' = nops + 1
    /\ UNCHANGED <<slices, vecs, status, genVars, strings, upVars, package, funcVars>>

\* MapObj::new
MapNew ==
    \E d \in Defaults :
        /\ Len(maps) < MaxMaps /\ Len(tables) < MaxTables
        /\ tables' = Append(tables, <<>>)
        /\ maps' = Append(maps, [default_val |-> d, map |-> Len(tables) + 1])
        /\ lastOp' = [op |-> "new", m |-> Len(maps) + 1]
        /\ MapTick

\* MapObj::insert
MapInsert ==
    \E i \in 1..Len(maps), k \in Keys, v \in Vals :
        /\ tables' = [tables EXCEPT ![maps[i].map] = table_insert(@, k, v)]
        /\ lastOp' = [op |-> "insert", m |-> i, k |-> k, v |-> v]
        /\ UNCHANGED maps
        /\ MapTick

\* MapObj::get
MapGet ==
    \E i \in 1..Len(maps), k \in Keys :
        LET g == map_get(maps[i], k)
        IN  /\ tables' = [tables EXCEPT ![maps[i].map] = g.table]
            /\ lastOp' = [op |-> "get", m |-> i, k |-> k, val |-> g.val,
                          old |-> tables[maps[i].map]]
            /\ UNCHANGED maps
            /\ MapTick

\* MapObj::touch_key
MapTouchKey ==
    \E i \in 1..Len(maps), k \in Keys :
        /\ tables' = [tables EXCEPT ![maps[i].map] = map_touch_key(maps[i], k)]
        /\ lastOp' = [op |-> "touch_key", m |-> i, k |-> k,
                      old |-> tables[maps[i].map],
                      again |-> /\ lastOp.op = "touch_key"
                                /\ lastOp.m = i /\ lastOp.k = k]
        /\ UNCHANGED maps
        /\ MapTick

\* Clone for MapObj: the same table
MapClone ==
    \E i \in 1..Len(maps) :
        /\ Len(maps) < MaxMaps
        /\ maps' = Append(maps, maps[i])
        /\ lastOp' = [op |-> "clone", m |-> Len(maps) + 1]
        /\ UNCHANGED tables
        /\ MapTick

\* MapObj::deep_clone: a copy of the table
MapDeepClone ==
    \E i \in 1..Len(maps) :
        /\ Len(maps) < MaxMaps /\ Len(tables) < MaxTables
        /\ tables' = Append(tables, tables[maps[i].map])
        /\ maps' = Append(maps, [default_val |-> maps[i].default_val,
                                 map |-> Len(tables) + 1])
        /\ lastOp' = [op |-> "deep_clone", m |-> Len(maps) + 1]
        /\ MapTick

MapInit ==
    /\ SliceIdle
    /\ ObjIdle
    /\ GenIdle

MapNext ==
    \/ MapNew
    \/ MapInsert
    \/ MapGet
    \/ MapTouchKey
    \/ MapClone
    \/ MapDeepClone

SpecMap == MapInit /\ [][MapNext]_vars

\* the map the last operation was applied to, and its table
LastMap == maps[lastOp.m]

LastTable == tables[LastMap.map]

\* C13: get on a key the table does not hold returns the map's default and
\* leaves the table as it was: the key is still missing, len() is the same.
C13_GetMissingReturnsDefault ==
    (lastOp.op = "get" /\ lastOp.k \notin DOMAIN lastOp.old) =>
        /\ lastOp.val = LastMap.default_val
        /\ LastTable = lastOp.old
        /\ lastOp.k \notin DOMAIN LastTable
        /\ map_len(LastMap) = Cardinality(DOMAIN lastOp.old)

\* a get missed in a table that holds the other key, through a clone
C13_Witness ==
    /\ lastOp.op = "get"
    /\ lastOp.k \notin DOMAIN lastOp.old
    /\ DOMAIN lastOp.old # {}
    /\ lastOp.m = 2 /\ maps[2].map = maps[1].map

\* C14: touch_key on a missing key adds the key with the map's default;
\* touch_key on a key the table holds - put there by insert or by an earlier
\* touch_key - leaves the table as it was.
C14_TouchKeyInsertsOnce ==
    lastOp.op = "touch_key" =>
        IF lastOp.k \in DOMAIN lastOp.old
        THEN LastTable = lastOp.old
        ELSE /\ DOMAIN LastTable = (DOMAIN lastOp.old) \cup {lastOp.k}
             /\ LastTable[lastOp.k] = LastMap.default_val
             /\ \A x \in DOMAIN lastOp.old : LastTable[x] = lastOp.old[x]

\* touch_key right after touch_key of the same key of the same map
C14_Witness ==
    /\ lastOp.op = "touch_key"
    /\ lastOp.again
    /\ lastOp.k \in DOMAIN lastOp.old
    /\ Cardinality(DOMAIN LastTable) = 1

\* touch_key of a key holding a value that is not the default
C14_WitnessKept ==
    /\ lastOp.op = "touch_key"
    /\ lastOp.k \in DOMAIN lastOp.old
    /\ lastOp.old[lastOp.k] # LastMap.default_val

\* ========================================================================
\* UpValue, WeakUpValue, ClosureObj (vm/src/objects.rs)
\*
\* An UpValue is a handle on a reference-counted cell holding Open(desc) or
\* Closed(val); the cell lives while a strong handle on it does.

MaxCells == 3
MaxHandles == 3
MaxClosures == 2

\* ValueDesc: the function a variable is declared in and its slot
Descs == {[func |-> 1, index |-> 0], [func |-> 1, index |-> 1]}

Open(d) == [state |-> "Open", desc |-> d]

Closed(v) == [state |-> "Closed", val |-> v]

\* the strong handles on cell c: UpValue values and closures' upvalue lists
strong_count(c) ==
    Cardinality({h \in 1..Len(upvalues) : upvalues[h] = c})
    + SeqSum([i \in 1..Len(closures) |->
          Cardinality({j \in 1..Len(closures[i].upvalues) :
                          closures[i].upvalues[j] = c})])

\* UpValue::close that reopens a closed upvalue
upvalue_close_reopening(old, val) ==
    IF old.state = "Closed" THEN Open([func |-> 1, index |-> 0])
    ELSE Closed(val)

\* UpValue::close: the cell's content is replaced
upvalue_close(old, val) == Closed(val)

UpTick ==
    /\ nops < MaxOps
    /\ nops' = nops + 1
    /\ UNCHANGED <<slices, vecs, status, genVars, strings, mapVars, package, funcVars>>

\* UpValue::new
UpNew ==
    \E d \in Descs :
        /\ Len(cells) < MaxCells /\ Len(upvalues) < MaxHandles
        /\ cells' = Append(cells, Open(d))
        /\ upvalues' = Append(upvalues, Len(cells) + 1)
        /\ lastOp' = [op |-> "new", c |-> Len(cells) + 1]
        /\ UNCHANGED <<weaks, closures>>
        /\ UpTick

\* Clone for UpValue: another handle on the same cell
UpClone ==
    \E h \in 1..Len(upvalues) :
        /\ upvalues[h] # 0
        /\ Len(upvalues) < MaxHandles
        /\ upvalues' = Append(upvalues, upvalues[h])
        /\ lastOp' = [op |-> "clone", c |-> upvalues[h]]
        /\ UNCHANGED <<cells, weaks, closures>>
        /\ UpTick

\* UpValue::downgrade
UpDowngrade ==
    \E h \in 1..Len(upvalues) :
        /\ upvalues[h] # 0
        /\ Len(weaks) < MaxHandles
        /\ weaks' = Append(weaks, upvalues[h])
        /\ lastOp' = [op |-> "downgrade", c |-> upvalues[h]]
        /\ UNCHANGED <<cells, upvalues, closures>>
        /\ UpTick

\* WeakUpValue::upgrade: a handle on the cell if it is still alive
UpUpgrade ==
    \E w \in 1..Len(weaks) :
        /\ IF strong_count(weaks[w]) > 0
           THEN /\ Len(upvalues) < MaxHandles
                /\ upvalues' = Append(upvalues, weaks[w])
                /\ lastOp' = [op |-> "upgrade", c |-> weaks[w], some |-> TRUE]
           ELSE /\ lastOp' = [op |-> "upgrade", c |-> weaks[w], some |-> FALSE]
                /\ UNCHANGED upvalues
        /\ UNCHANGED <<cells, weaks, closures>>
        /\ UpTick

\* UpValue::close
UpClose ==
    \E h \in 1..Len(upvalues), v \in Vals :
        /\ upvalues[h] # 0
        /\ cells' = [cells EXCEPT ![upvalues[h]] = upvalue_close(@, v)]
        /\ lastOp' = [op |-> "close", c |-> upvalues[h], val |-> v]
        /\ UNCHANGED <<upvalues, weaks, closures>>
        /\ UpTick

\* an UpValue goes out of scope
UpDrop ==
    \E h \in 1..Len(upvalues) :
        /\ upvalues[h] # 0
        /\ upvalues' = [upvalues EXCEPT ![h] = 0]
        /\ lastOp' = [op |-> "drop", c |-> upvalues[h]]
        /\ UNCHANGED <<cells, weaks, closures>>
        /\ UpTick

\* ClosureObj::new: one UpValue::new per descriptor; a function's list of
\* upvalue descriptors holds no descriptor twice
ClosureNew ==
    \E ds \in UNION {[1..n -> Descs] : n \in 1..2} :
        /\ \A x, y \in 1..Len(ds) : ds[x] = ds[y] => x = y
        /\ Len(closures) < MaxClosures
        /\ Len(cells) + Len(ds) <= MaxCells
        /\ cells' = cells \o [j \in 1..Len(ds) |-> Open(ds[j])]
        /\ closures' = Append(closures,
               [func |-> 2,
                upvalues |-> [j \in 1..Len(ds) |-> Len(cells) + j],
                descs |-> ds])
        /\ lastOp' = [op |-> "closure_new", f |-> Len(closures) + 1]
        /\ UNCHANGED <<upvalues, weaks>>
        /\ UpTick

\* Clone for ClosureObj: the list of handles is cloned, the cells are shared
ClosureClone ==
    \E i \in 1..Len(closures) :
        /\ Len(closures) < MaxClosures
        /\ closures' = Append(closures, closures[i])
        /\ lastOp' = [op |-> "closure_clone", f |-> Len(closures) + 1]
        /\ UNCHANGED <<cells, upvalues, weaks>>
        /\ UpTick

\* closing the variable through a closure: closure.upvalues()[j].close(val)
ClosureClose ==
    \E i \in 1..Len(closures), v \in Vals :
        \E j \in 1..Len(closures[i].upvalues) :
            /\ cells' = [cells EXCEPT ![closures[i].upvalues[j]] =
                            upvalue_close(@, v)]
            /\ lastOp' = [op |-> "closure_close", f |-> i, j |-> j,
                          c |-> closures[i].upvalues[j], val |-> v]
            /\ UNCHANGED <<upvalues, weaks, closures>>
            /\ UpTick

UpInit ==
    /\ SliceIdle
    /\ ObjIdle
    /\ GenIdle

UpNext ==
    \/ UpNew
    \/ UpClone
    \/ UpDowngrade
    \/ UpUpgrade
    \/ UpClose
    \/ UpDrop
    \/ ClosureNew
    \/ ClosureClone
    \/ ClosureClose

SpecUpValue == UpInit /\ [][UpNext]_vars

\* C15: an upvalue is created Open, and one that is Closed is Closed after
\* every step: close, clone, downgrade, upgrade and drop never reopen it.
C15_ClosedStaysClosed ==
    [][/\ \A c \in 1..Len(cells) :
              cells[c].state = "Closed" =>
                  (Len(cells') >= c /\ cells'[c].state = "Closed")
       /\ \A c \in (Len(cells) + 1)..Len(cells') : cells'[c].state = "Open"
      ]_vars

\* a weak handle on a closed upvalue was upgraded, and the upvalue is Closed
C15_Witness ==
    /\ lastOp.op = "upgrade"
    /\ lastOp.some
    /\ cells[lastOp.c].state = "Closed"

\* C16: the closures capturing one variable share its upvalue: when the
\* upvalue one closure holds for a descriptor is Closed, so is the upvalue
\* every other closure holds for that descriptor, with the same value.
C16_ClosuresShareUpValue ==
    \A i, k \in 1..Len(closures) :
        \A j \in 1..Len(closures[i].upvalues), l \in 1..Len(closures[k].upvalues) :
            (/\ closures[i].descs[j] = closures[k].descs[l]
             /\ cells[closures[i].upvalues[j]].state = "Closed")
                => cells[closures[k].upvalues[l]] = cells[closures[i].upvalues[j]]

\* ========================================================================
\* PackageVal (vm/src/objects.rs)
\*
\* Members are indexed from 0 as in the source: member i is members[i + 1].

MaxMembers == 3

Names == {"a", "b"}

MemberKinds == {"import", "const", "var", "func"}

\* PackageVal::add_member that starts a new var mapping
add_member_remapping(p, name, val) ==
    [p EXCEPT !.members = Append(@, val),
              !.member_indices = table_insert(@, name, Len(p.members)),
              !.var_mapping = [some |-> TRUE, map |-> <<>>]]

\* PackageVal::add_member: the value is pushed, its index recorded by name
add_member(p, name, val) ==
    [p EXCEPT !.members = Append(@, val),
              !.member_indices = table_insert(@, name, Len(p.members))]

\* PackageVal::add_var_mapping; both unwraps must succeed
add_var_mapping(p, name, fn_index) ==
    [p EXCEPT !.var_mapping.map =
                  table_insert(@, fn_index, p.member_indices[name])]

\* PackageVal::inited
inited(p) == ~p.var_mapping.some

\* PackageVal::set_inited
set_inited(p) == [p EXCEPT !.var_mapping = NoMapping]

PkgTick ==
    /\ status = "ok"
    /\ nops < MaxOps
    /\ nops' = nops + 1
    /\ UNCHANGED <<slices, vecs, genVars, strings, mapVars, upVars, funcVars>>

PkgAddMember ==
    \E name \in Names, k \in MemberKinds :
        /\ Len(package.members) < MaxMembers
        /\ package' = add_member(package, name, [kind |-> k, name |-> name])
        /\ lastOp' = [op |-> "add_member", name |-> name]
        /\ UNCHANGED status
        /\ PkgTick

PkgAddVarMapping ==
    \E name \in Names, fn_index \in 0..1 :
        /\ lastOp' = [op |-> "add_var_mapping", name |-> name]
        /\ IF name \in DOMAIN package.member_indices /\ package.var_mapping.some
           THEN /\ package' = add_var_mapping(package, name, fn_index)
                /\ UNCHANGED status
           ELSE status' = "panic" /\ UNCHANGED package
        /\ PkgTick

\* PackageVal::var_count: unwraps the mapping
PkgVarCount ==
    /\ lastOp' = [op |-> "var_count"]
    /\ status' = IF package.var_mapping.some THEN "ok" ELSE "panic"
    /\ UNCHANGED package
    /\ PkgTick

PkgSetInited ==
    /\ package' = set_inited(package)
    /\ lastOp' = [op |-> "set_inited"]
    /\ UNCHANGED status
    /\ PkgTick

PkgInit ==
    /\ SliceIdle
    /\ ObjIdle
    /\ GenIdle

PkgNext ==
    \/ PkgAddMember
    \/ PkgAddVarMapping
    \/ PkgVarCount
    \/ PkgSetInited

SpecPackage == PkgInit /\ [][PkgNext]_vars

\* C17: a new package has its var mapping and is not inited; set_inited
\* discards the mapping; no other step discards it and no step brings it
\* back, so inited() is false before set_inited and true ever after.
C17_VarMappingUntilInited ==
    /\ package.var_mapping.some /\ ~inited(package)
    /\ [][/\ inited(package) => inited(package')
          /\ lastOp'.op = "set_inited" => inited(package')
          /\ (~inited(package) /\ lastOp'.op # "set_inited")
                 => (package'.var_mapping.some /\ ~inited(package'))
         ]_vars

\* a member was added to a package after set_inited, and it is still inited
C17_Witness ==
    /\ lastOp.op = "add_member"
    /\ inited(package)
    /\ Len(package.members) >= 2

\* ------------------------------------------------------------------------
\* gen_with_files (codegen/src/codegen.rs): the members of a package
\*
\* The files of a package are the sequence of their top-level declarations;
\* declaration i is [kind, name].

MaxDecls == 3

DeclKinds == {"import", "const", "type", "var", "func", "method", "init"}

DeclNames == <<"a", "b", "c", "d">>

\* the closure of the package's initializer function
CtorClosure == [kind |-> "ctor", name |-> ""]

Member(d) == [kind |-> d.kind, name |-> d.name]

RECURSIVE add_members(_, _)
add_members(p, ds) ==
    IF ds = <<>> THEN p
    ELSE add_members(add_member(p, Head(ds).name, Member(Head(ds))), Tail(ds))

\* add_pkg_var_member: a zero value per package-level variable
add_pkg_var_member(p, names) == add_members(p, names)

\* PkgHelper::gen_imports: a member per imported package
gen_imports(p, decls) ==
    add_members(p, SelectSeq(decls, LAMBDA d : d.kind = "import"))

\* visit_decl for the declarations of the files: constants, types and
\* functions become members; init functions, methods, variables and
\* imports do not
visit_decls(p, decls) ==
    add_members(p, SelectSeq(decls,
                       LAMBDA d : d.kind \in {"const", "type", "func"}))

\* gen_def_var in the initializer: local i of the initializer is mapped to
\* the variable's member
RECURSIVE gen_def_vars(_, _, _)
gen_def_vars(p, vs, i) ==
    IF vs = <<>> THEN p
    ELSE gen_def_vars(add_var_mapping(p, Head(vs).name, i), Tail(vs), i + 1)

\* gen_with_files with the variables' members added before the initializer's
gen_with_files_vars_first(p, decls) ==
    LET vs == SelectSeq(decls, LAMBDA d : d.kind = "var")
        p1 == add_pkg_var_member(p, vs)
        p2 == add_member(p1, "", CtorClosure)
        p3 == gen_imports(p2, decls)
        p4 == visit_decls(p3, decls)
    IN  gen_def_vars(p4, vs, 0)

\* CodeGen::gen_with_files
gen_with_files(p, decls) ==
    LET vs == SelectSeq(decls, LAMBDA d : d.kind = "var")
        p1 == add_member(p, "", CtorClosure)
        p2 == add_pkg_var_member(p1, vs)
        p3 == gen_imports(p2, decls)
        p4 == visit_decls(p3, decls)
    IN  gen_def_vars(p4, vs, 0)

Files ==
    {[kind |-> "files",
      decls |-> [i \in 1..Len(ks) |-> [kind |-> ks[i], name |-> DeclNames[i]]]] :
        ks \in UNION {[1..n -> DeclKinds] : n \in 0..MaxDecls}}

PkgGenInit ==
    /\ SliceIdle
    /\ ObjIdle
    /\ stmt \in Files
    /\ code = <<>>
    /\ phase = "gen"
    /\ pc = 0
    /\ stack = <<>>
    /\ trace = <<>>

GenWithFiles ==
    /\ phase = "gen"
    /\ stmt.kind = "files"
    /\ package' = gen_with_files(package, stmt.decls)
    /\ code' = code \o <<[op |-> "RETURN", imm |-> 0, arg |-> 0]>>
    /\ phase' = "done"
    /\ UNCHANGED <<stmt, pc, stack, trace, sliceVars, mapVars, upVars, funcVars,
                   strings>>

PkgGenNext == GenWithFiles

SpecPkgGen == PkgGenInit /\ [][PkgGenNext]_vars

\* the declarations that become members
MemberDecls ==
    SelectSeq(stmt.decls,
              LAMBDA d : d.kind \in {"import", "const", "type", "var", "func"})

\* C18: after gen_with_files, member 0 of the package is the closure of its
\* initializer, and every import, const, var and func is a member with an
\* index above 0.
C18_MemberZeroIsInitializer ==
    (stmt.kind = "files" /\ phase = "done") =>
        /\ package.members # <<>>
        /\ package.members[1] = CtorClosure
        /\ \A i \in 2..Len(package.members) : package.members[i] # CtorClosure
        /\ \A k \in 1..Len(MemberDecls) :
               LET d == MemberDecls[k]
               IN  /\ d.name \in DOMAIN package.member_indices
                   /\ package.member_indices[d.name] > 0
                   /\ package.members[package.member_indices[d.name] + 1]
                          = Member(d)

\* a package with a variable, a constant and a function was generated
C18_Witness ==
    /\ stmt.kind = "files" /\ phase = "done"
    /\ Len(stmt.decls) = 3
    /\ {stmt.decls[i].kind : i \in 1..3} = {"var", "const", "func"}
    /\ stmt.decls[3].kind = "var"
    /\ Len(package.members) = 4

\* ========================================================================
\* FunctionVal (vm/src/objects.rs): constants, locals and the entity table
\*
\* Constants and locals are indexed from 0: constant i is consts[i + 1].

MaxConsts == 3
MaxLocals == 2

ConstVals == {10, 20, 30}

EntityKeys == {"x", "y", "z"}

\* Option<EntityKey>: None
NoEntity == "none"

\* Option<EntIndex>: None
NoIndex == [kind |-> "None", i |-> -1]

EntConst(i) == [kind |-> "Const", i |-> i]

EntLocalVar(i) == [kind |-> "LocalVar", i |-> i]

\* FunctionVal::entity_index
entity_index(f, entity) ==
    IF entity \in DOMAIN f.entities THEN f.entities[entity] ELSE NoIndex

\* FunctionVal::const_val
const_val(f, i) == f.consts[i + 1]

\* FunctionVal::get_const_index that finds nothing
get_const_index_blind(f, val) == NoIndex

\* FunctionVal::get_const_index: the first constant equal to val
get_const_index(f, val) ==
    IF \E i \in 1..Len(f.consts) : f.consts[i] = val
    THEN EntConst((CHOOSE i \in 1..Len(f.consts) :
                      /\ f.consts[i] = val
                      /\ \A j \in 1..(i - 1) : f.consts[j] # val) - 1)
    ELSE NoIndex

\* FunctionVal::add_const: [f, result, ok]; ok is FALSE when the assert on
\* the entity table fails
add_const(f, entity, cst) ==
    LET found == get_const_index(f, cst)
        result == Len(f.consts)
    IN  IF found # NoIndex THEN [f |-> f, result |-> found, ok |-> TRUE]
        ELSE IF entity = NoEntity
        THEN [f |-> [f EXCEPT !.consts = Append(@, cst)],
              result |-> EntConst(result), ok |-> TRUE]
        ELSE [f |-> [f EXCEPT !.consts = Append(@, cst),
                              !.entities = table_insert(@, entity,
                                                        EntConst(result))],
              result |-> EntConst(result),
              ok |-> entity \notin DOMAIN f.entities]

\* FunctionVal::add_local: [f, result, ok]
add_local(f, entity) ==
    LET result == f.local_alloc
    IN  IF entity = NoEntity
        THEN [f |-> [f EXCEPT !.local_alloc = @ + 1],
              result |-> EntLocalVar(result), ok |-> TRUE]
        ELSE [f |-> [f EXCEPT !.local_alloc = @ + 1,
                              !.entities = table_insert(@, entity,
                                                        EntLocalVar(result))],
              result |-> EntLocalVar(result),
              ok |-> entity \notin DOMAIN f.entities]

FuncTick ==
    /\ status = "ok"
    /\ nops < MaxOps
    /\ nops' = nops + 1
    /\ UNCHANGED <<slices, vecs, genVars, strings, mapVars, upVars, package, func_stack,
                   calls>>

FnAddConst ==
    \E entity \in EntityKeys \cup {NoEntity}, cst \in ConstVals :
        LET r == add_const(func, entity, cst)
        IN  /\ Len(r.f.consts) <= MaxConsts
            /\ func' = r.f
            /\ status' = IF r.ok THEN "ok" ELSE "panic"
            /\ lastOp' = [op |-> "add_const", entity |-> entity, cst |-> cst,
                          result |-> r.result, old |-> func]
            /\ FuncTick

FnAddLocal ==
    \E entity \in EntityKeys \cup {NoEntity} :
        LET r == add_local(func, entity)
        IN  /\ r.f.local_alloc <= MaxLocals
            /\ func' = r.f
            /\ status' = IF r.ok THEN "ok" ELSE "panic"
            /\ lastOp' = [op |-> "add_local", entity |-> entity,
                          result |-> r.result, old |-> func]
            /\ FuncTick

FuncInit ==
    /\ SliceIdle
    /\ ObjIdle
    /\ GenIdle

FuncNext ==
    \/ FnAddConst
    \/ FnAddLocal

SpecFunc == FuncInit /\ [][FuncNext]_vars

\* C19: the constant pool never holds a value twice; add_const of a value
\* that is in the pool returns the index it has there and leaves the pool as
\* it was, and the index add_const returns always holds the value.
C19_ConstPoolDeduplicated ==
    /\ \A i, j \in 1..Len(func.consts) :
           func.consts[i] = func.consts[j] => i = j
    /\ lastOp.op = "add_const" =>
           /\ lastOp.result.kind = "Const"
           /\ const_val(func, lastOp.result.i) = lastOp.cst
           /\ (\E i \in 1..Len(lastOp.old.consts) :
                   lastOp.old.consts[i] = lastOp.cst)
                  => /\ func.consts = lastOp.old.consts
                     /\ const_val(lastOp.old, lastOp.result.i) = lastOp.cst

\* a value was added again to a pool of two, and it is the second one
C19_Witness ==
    /\ lastOp.op = "add_const"
    /\ Len(lastOp.old.consts) = 2
    /\ lastOp.old.consts[2] = lastOp.cst
    /\ lastOp.result = EntConst(1)
    /\ Len(func.consts) = 2

\* C30: after add_const with an entity that was not defined before, the
\* entity table maps the entity to a constant index that holds the value,
\* also when an equal value was in the pool before the call.
C30_ConstDefFindable ==
    (/\ lastOp.op = "add_const"
     /\ lastOp.entity # NoEntity
     /\ lastOp.entity \notin DOMAIN lastOp.old.entities) =>
        /\ status = "ok"
        /\ entity_index(func, lastOp.entity).kind = "Const"
        /\ entity_index(func, lastOp.entity) = lastOp.result
        /\ const_val(func, lastOp.result.i) = lastOp.cst

\* ========================================================================
\* The code generator (codegen/src/codegen.rs)
\*
\* An operand expression is known by the symbolic values its evaluation
\* leaves on the stack: <<"base", i>> and <<"index", i>> for the container
\* (or pointer) and the index of target i, <<"rhs", k>> for the k-th
\* right-hand value.

MaxTargets == 3

Tag(role, i) == <<role, i>>

Inst(op, imm, arg) == [op |-> op, imm |-> imm, arg |-> arg]

\* CodeGen::visit_expr for an operand: code that leaves its values on the stack
visit_expr(tags) == <<Inst("EVAL", 0, tags)>>

\* Emitter::emit_pop
emit_pop(n) == <<Inst("POP", 0, n)>>

\* Emitter::emit_store: the target, the stack offset of the value, the fused
\* operator of a compound assignment ("none" for a plain store)
emit_store(l, rhs_index, fused) ==
    <<Inst("STORE", 0, [lhs |-> l, rhs_index |-> rhs_index, fused |-> fused])>>

\* Emitter::emit_cast, converting in place the value at stack offset index
emit_cast(to, from, index) ==
    <<Inst("CAST", 0, [to |-> to, from |-> from, index |-> index])>>

\* Emitter::emit_unwrap, unwrapping in place the named value at offset index
emit_unwrap(index) == <<Inst("UNWRAP", 0, index)>>

\* the forms of an assignable expression that gen_assign tells apart
LhsKinds == {"Ident", "PkgMember", "IndexConst", "IndexExpr", "Field", "Star"}

\* LeftHandSide, as gen_assign builds it for target i of the given form
LeftHandSide(k, i) ==
    CASE k = "Blank" ->
           [kind |-> "Primitive", ent |-> 0, index |-> 0,
            imm |-> FALSE, t2 |-> FALSE, typ |-> "none"]
      [] k \in {"Ident", "PkgMember"} ->
           [kind |-> "Primitive", ent |-> i, index |-> 0,
            imm |-> FALSE, t2 |-> FALSE, typ |-> "none"]
      [] k = "IndexConst" ->
           [kind |-> "IndexSelExpr", ent |-> 0, index |-> 0,
            imm |-> TRUE, t2 |-> FALSE, typ |-> "Indexing"]
      [] k = "IndexExpr" ->
           [kind |-> "IndexSelExpr", ent |-> 0, index |-> 0,
            imm |-> FALSE, t2 |-> TRUE, typ |-> "Indexing"]
      [] k = "Field" ->
           [kind |-> "IndexSelExpr", ent |-> 0, index |-> 0,
            imm |-> TRUE, t2 |-> FALSE, typ |-> "StructField"]
      [] k = "Star" ->
           [kind |-> "Deref", ent |-> 0, index |-> 0,
            imm |-> FALSE, t2 |-> FALSE, typ |-> "none"]

\* lhs_code with the target's operands evaluated a second time, as a
\* lowering of T op= w to T = T op w would
lhs_code_twice(k, i) ==
    CASE k \in {"Blank", "Ident", "PkgMember"} -> <<>>
      [] k = "IndexConst" ->
           visit_expr(<<Tag("base", i)>>) \o visit_expr(<<Tag("base", i)>>)
      [] k = "IndexExpr" ->
           visit_expr(<<Tag("base", i)>>) \o visit_expr(<<Tag("index", i)>>)
           \o visit_expr(<<Tag("base", i)>>) \o visit_expr(<<Tag("index", i)>>)
      [] k = "Field" ->
           visit_expr(<<Tag("base", i)>>) \o visit_expr(<<Tag("base", i)>>)
      [] k = "Star" ->
           visit_expr(<<Tag("base", i)>>) \o visit_expr(<<Tag("base", i)>>)

\* lhs_code with the index of an indexed target evaluated before its base
lhs_code_index_first(k, i) ==
    CASE k \in {"Blank", "Ident", "PkgMember"} -> <<>>
      [] k = "IndexConst" -> visit_expr(<<Tag("base", i)>>)
      [] k = "IndexExpr" ->
           visit_expr(<<Tag("index", i)>>) \o visit_expr(<<Tag("base", i)>>)
      [] k = "Field" -> visit_expr(<<Tag("base", i)>>)
      [] k = "Star" -> visit_expr(<<Tag("base", i)>>)

\* the operand code gen_assign emits for target i while it builds the target
lhs_code(k, i) ==
    CASE k \in {"Blank", "Ident", "PkgMember"} -> <<>>
      [] k = "IndexConst" -> visit_expr(<<Tag("base", i)>>)
      [] k = "IndexExpr" ->
           visit_expr(<<Tag("base", i)>>) \o visit_expr(<<Tag("index", i)>>)
      [] k = "Field" -> visit_expr(<<Tag("base", i)>>)
      [] k = "Star" -> visit_expr(<<Tag("base", i)>>)

\* IndexSelInfo::stack_space
stack_space(info) == IF info.t2 THEN 2 ELSE 1

\* IndexSelInfo::with_index
with_index(info, index) == [info EXCEPT !.index = index]

\* the stack slots the fold of gen_assign_def_var counts for one target
lhs_stack_space(l) ==
    CASE l.kind = "Primitive" -> 0
      [] l.kind = "IndexSelExpr" -> stack_space(l)
      [] l.kind = "Deref" -> 1

\* what the store loop adds to current_indexing_deref_index after a target
store_advance(l) ==
    CASE l.kind = "Primitive" -> 0
      [] l.kind = "IndexSelExpr" -> 2
      [] l.kind = "Deref" -> 1

\* lhs_pop counting two slots for every indexed target
lhs_pop_two(l) ==
    CASE l.kind = "Primitive" -> 0
      [] l.kind = "IndexSelExpr" -> 2
      [] l.kind = "Deref" -> 1

\* what the pop loop of gen_assign_def_var adds to total_pop for one target
lhs_pop(l) ==
    CASE l.kind = "Primitive" -> 0
      [] l.kind = "IndexSelExpr" -> IF l.t2 THEN 2 ELSE 1
      [] l.kind = "Deref" -> 1

\* Option<TCTypeKey>: None
NoType == "None"

\* the interface types; "Interface" is the one the assignments use
IfaceTypes == {"Interface", "IfaceA", "IfaceB"}

\* TypeLookup::underlying_value_type_from_tc
underlying_value_type(t) == IF t \in IfaceTypes THEN "Interface" ELSE t

\* CodeGen::try_cast_to_iface on static types lt (target) and rt (value);
\* a value without a type is the slice of a variadic parameter
try_cast_to_iface(lt, rt, rhs_index) ==
    IF lt # NoType /\ underlying_value_type(lt) = "Interface"
    THEN IF rt = NoType THEN emit_cast("Interface", "Slice", rhs_index)
         ELSE IF underlying_value_type(rt) \notin {"Interface", "Nil"}
         THEN emit_cast("Interface", rt, rhs_index)
         ELSE <<>>
    ELSE <<>>

\* the right-hand side part of gen_assign_def_var: the code it emits, the
\* number of value types it yields, and the position of RANGE (-1 if none)
gen_rhs(f, n, rhs) ==
    CASE rhs.kind = "Nothing" ->
           [code |-> Flatten([i \in 1..n |-> visit_expr(<<Tag("rhs", i)>>)]),
            types |-> n, range_marker |-> -1]
      [] rhs.kind = "Values" /\ rhs.n = 1 /\ rhs.mode = "CommaOk" ->
           [code |-> visit_expr([k \in 1..(IF n = 2 THEN 2 ELSE 1) |->
                                    Tag("rhs", k)]),
            types |-> IF n = 2 THEN 2 ELSE 1, range_marker |-> -1]
      [] rhs.kind = "Values" /\ rhs.mode # "CommaOk" /\ rhs.n = n ->
           [code |-> Flatten([i \in 1..n |-> visit_expr(<<Tag("rhs", i)>>)]),
            types |-> n, range_marker |-> -1]
      [] rhs.kind = "Values" /\ rhs.mode # "CommaOk" /\ rhs.n # n ->
           [code |-> visit_expr([k \in 1..rhs.results |-> Tag("rhs", k)]),
            types |-> rhs.results, range_marker |-> -1]
      [] rhs.kind = "Range" ->
           [code |-> visit_expr(<<Tag("range", 0)>>)
                     \o <<Inst("RANGE_INIT", 0, 0), Inst("RANGE", 0, 0)>>,
            types |-> 2, range_marker |-> Len(f) + 2]
      [] rhs.kind = "SelectRecv" ->
           [code |-> <<>>,
            types |-> IF n = 2 /\ rhs.mode = "CommaOk" THEN 2 ELSE 1,
            range_marker |-> -1]

\* CodeGen::gen_assign_def_var: appends to the code f of the current function
gen_assign_def_var(f, lhs, ltypes, rtypes, rhs) ==
    LET n == Len(lhs)
        r == gen_rhs(f, n, rhs)
        total_lhs_stack_space == SeqSum([i \in 1..n |-> lhs_stack_space(lhs[i])])
        lhs_on_stack_top == rhs.kind = "SelectRecv"
        total_val == r.types
        total_stack_space == total_lhs_stack_space + total_val
        first_index == -(IF lhs_on_stack_top THEN total_lhs_stack_space
                                            ELSE total_stack_space)
        current_indexing_deref_index(i) ==
            first_index + SeqSum([j \in 1..(i - 1) |-> store_advance(lhs[j])])
        rhs_index(i) ==
            (i - 1) - (IF lhs_on_stack_top THEN total_stack_space ELSE total_val)
        store(i) ==
            try_cast_to_iface(ltypes[i], rtypes[i], rhs_index(i))
            \o emit_store(IF lhs[i].kind = "Primitive" THEN lhs[i]
                          ELSE with_index(lhs[i], current_indexing_deref_index(i)),
                          rhs_index(i), "none")
        total_pop == r.types + SeqSum([i \in 1..n |-> lhs_pop(lhs[i])])
    IN  [code |-> f \o r.code \o Flatten([i \in 1..n |-> store(i)])
                   \o emit_pop(total_pop),
         range_marker |-> r.range_marker]

\* CodeGen::gen_op_assign: a fused load-modify-store on one target
gen_op_assign(f, left, op, has_right, unwrap_right) ==
    LET rhs_count == IF has_right THEN 1 ELSE 0
        right == IF has_right THEN visit_expr(<<Tag("rhs", 1)>>) ELSE <<>>
        shift == IF op[2] = "None" THEN <<>>
                 ELSE (IF unwrap_right THEN emit_unwrap(-1) ELSE <<>>)
                      \o (IF op[2] # "Uint32"
                          THEN emit_cast("Uint32", op[2], -1) ELSE <<>>)
        store ==
            CASE left.kind = "Primitive" ->
                   emit_store(left, -1, op[1]) \o emit_pop(rhs_count)
              [] left.kind = "IndexSelExpr" ->
                   emit_store(with_index(left, -stack_space(left) - rhs_count),
                              -1, op[1])
                   \o emit_pop(rhs_count + 1 + (IF left.t2 THEN 1 ELSE 0))
              [] left.kind = "Deref" ->
                   emit_store(with_index(left, -1 - rhs_count), -1, op[1])
                   \o emit_pop(1 + rhs_count)
    IN  f \o right \o shift \o store

\* the compound-assignment tokens and the opcode gen_assign fuses for each
simple_op ==
    [ADD_ASSIGN |-> "ADD", SUB_ASSIGN |-> "SUB", MUL_ASSIGN |-> "MUL",
     QUO_ASSIGN |-> "QUO", REM_ASSIGN |-> "REM", AND_ASSIGN |-> "AND",
     OR_ASSIGN |-> "OR", XOR_ASSIGN |-> "XOR", SHL_ASSIGN |-> "SHL",
     SHR_ASSIGN |-> "SHR", AND_NOT_ASSIGN |-> "AND_NOT"]

CompoundTokens == DOMAIN simple_op

IncDecTokens == {"INC", "DEC"}

\* CodeGen::gen_assign: the targets' operands first, then by token and
\* right-hand side either gen_op_assign or gen_assign_def_var
gen_assign(f, st) ==
    LET n == Len(st.lhs)
        lhs == [i \in 1..n |-> LeftHandSide(st.lhs[i], st.first + i)]
        f1 == f \o Flatten([i \in 1..n |-> lhs_code(st.lhs[i], st.first + i)])
    IN  CASE st.rhs.kind = "Nothing" /\ st.token \in IncDecTokens ->
               [code |-> gen_op_assign(f1, lhs[1],
                             <<IF st.token = "INC" THEN "UNARY_ADD"
                                                   ELSE "UNARY_SUB", "None">>,
                             FALSE, FALSE),
                range_marker |-> -1]
          [] st.rhs.kind = "Values" /\ st.token \in CompoundTokens ->
               [code |-> gen_op_assign(f1, lhs[1],
                             <<simple_op[st.token],
                               IF simple_op[st.token] \in {"SHL", "SHR"}
                               THEN st.rhs.typ ELSE "None">>,
                             TRUE,
                             simple_op[st.token] \in {"SHL", "SHR"}
                                 /\ st.rhs.named),
                range_marker |-> -1]
          [] OTHER -> gen_assign_def_var(f1, lhs, st.ltypes, st.rtypes, st.rhs)

\* CodeGen::gen_def_var: a var declaration, all targets Primitive
gen_def_var(f, st) ==
    gen_assign_def_var(f, [i \in 1..Len(st.lhs) |->
                              LeftHandSide("Ident", st.first + i)],
                       st.ltypes, st.rtypes, st.rhs)

\* ------------------------------------------------------------------------
\* Switch lowering
\*
\* A clause is [vals, ft]: the values of its case list (<<>> for the default
\* clause) and whether its body ends in fallthrough.  A clause body is one
\* opaque statement, emitted as a BODY instruction naming its clause.

\* Instruction::set_imm on the instruction at a code position
set_imm(f, offset, imm) == [f EXCEPT ![offset + 1].imm = imm]

\* SwitchJumpPoints::patch_case / patch_default / SwitchHelper::patch_ends:
\* each recorded jump is made to land on loc
RECURSIVE patch_points(_, _, _)
patch_points(f, points, loc) ==
    IF points = <<>> THEN f
    ELSE patch_points(set_imm(f, Head(points), loc - Head(points) - 1),
                      Tail(points), loc)

\* the recorded jump positions of case clause i
case_points(tags, i) ==
    LET mine == SelectSeq(tags, LAMBDA t : t.case = i)
    IN  [k \in 1..Len(mine) |-> mine[k].offset]

\* CodeGen::visit_stmt for the statements of a clause body
visit_body(i) == <<Inst("BODY", 0, i)>>

\* first loop of gen_switch_body, one clause: a test per value of the list
switch_tests(acc, cl, i) ==
    LET n == Len(cl.vals)
        base == Len(acc.code)
    IN  [code |-> acc.code
                  \o Flatten([k \in 1..n |->
                         visit_expr(<<Tag("case", cl.vals[k])>>)
                         \o <<Inst("SWITCH", 0, 0)>>]),
         tags |-> acc.tags
                  \o [k \in 1..n |-> [case |-> i, offset |-> base + 2 * k - 1]]]

RECURSIVE switch_pass1(_, _, _)
switch_pass1(acc, clauses, i) ==
    IF i > Len(clauses) THEN acc
    ELSE switch_pass1(switch_tests(acc, clauses[i], i), clauses, i + 1)

\* whether gen_switch_body ends a clause body with a jump to the end
switch_case_end_never(ft) == FALSE

switch_case_end_always(ft) == TRUE

switch_case_end(ft) == ~ft

\* whether gen_switch_body sends the default jump to the end of the switch
patch_absent_default_always(has_default) == TRUE

patch_absent_default(has_default) == ~has_default

\* second loop of gen_switch_body, one clause: the entry of the body is
\* patched into the clause's tests, the body follows, then the end jump
switch_body(acc, cl, i, tags, default_offset) ==
    LET start == Len(acc.code)
        patched == IF cl.vals = <<>>
                   THEN patch_points(acc.code, <<default_offset>>, start)
                   ELSE patch_points(acc.code, case_points(tags, i), start)
        body == patched \o visit_body(i)
    IN  IF switch_case_end(cl.ft)
        THEN [code |-> body \o <<Inst("JUMP", 0, 0)>>,
              ends |-> Append(acc.ends, Len(body))]
        ELSE [code |-> body, ends |-> acc.ends]

RECURSIVE switch_pass2(_, _, _, _, _)
switch_pass2(acc, clauses, i, tags, default_offset) ==
    IF i > Len(clauses) THEN acc
    ELSE switch_pass2(switch_body(acc, clauses[i], i, tags, default_offset),
                      clauses, i + 1, tags, default_offset)

\* CodeGen::gen_switch_body
gen_switch_body(f, clauses) ==
    LET has_default == \E i \in 1..Len(clauses) : clauses[i].vals = <<>>
        p1 == switch_pass1([code |-> f, tags |-> <<>>], clauses, 1)
        default_offset == Len(p1.code)
        p2 == switch_pass2([code |-> p1.code \o <<Inst("JUMP", 0, 0)>>,
                            ends |-> <<>>],
                           clauses, 1, p1.tags, default_offset)
        end == Len(p2.code)
        f3 == patch_points(p2.code, p2.ends, end)
        f4 == IF patch_absent_default(has_default)
              THEN patch_points(f3, <<default_offset>>, end)
              ELSE f3
    IN  f4 \o emit_pop(1)

\* CodeGen::visit_stmt_switch: the tag, then the body
visit_stmt_switch(f, st) ==
    gen_switch_body(f \o visit_expr(<<Tag("tag", st.tag)>>), st.clauses)

\* ------------------------------------------------------------------------
\* Range lowering

\* FunctionVal::offset (vm/src/objects.rs)
offset(f, loc) == Len(f) - loc

\* the jump at the end of the loop body, back to the RANGE instruction
range_back_offset(f, marker) == -offset(f, marker) - 1

\* range_end_offset taken as if the closing jump were already emitted
range_end_offset_short(f, marker) == offset(f, marker) - 1

\* where RANGE goes when the iteration is over
range_end_offset(f, marker) == offset(f, marker)

\* CodeGen::visit_stmt_range; the loop body is st.body opaque statements
visit_stmt_range(f, st) ==
    LET g == gen_assign(f, st)
        marker == g.range_marker
        f1 == g.code \o Flatten([j \in 1..st.body |-> visit_body(j)])
    IN  set_imm(f1, marker, range_end_offset(f1, marker))
        \o <<Inst("JUMP", range_back_offset(f1, marker), 0)>>

\* ------------------------------------------------------------------------
\* Select lowering
\*
\* A clause is [comm, lhs, body]: the kind of its communication ("Send",
\* "Recv", "RecvCommaOk", "RecvNoLhs", "Default"), the targets of a receive
\* with a left-hand side, and the number of opaque statements of its body.

\* the targets of clause i are numbered from TargetBase * i + 1, so up to
\* TargetBase targets of a clause are told apart
TargetBase == 10

\* comm_operands with the value of a send evaluated before its channel
comm_operands_swapped(c, i) ==
    CASE c.comm = "Send" ->
           visit_expr(<<Tag("sendval", i)>>) \o visit_expr(<<Tag("chan", i)>>)
      [] c.comm \in {"Recv", "RecvCommaOk", "RecvNoLhs"} ->
           visit_expr(<<Tag("chan", i)>>)
      [] c.comm = "Default" -> <<>>

\* first loop of visit_stmt_select: the operands of clause i
comm_operands(c, i) ==
    CASE c.comm = "Send" ->
           visit_expr(<<Tag("chan", i)>>) \o visit_expr(<<Tag("sendval", i)>>)
      [] c.comm \in {"Recv", "RecvCommaOk", "RecvNoLhs"} ->
           visit_expr(<<Tag("chan", i)>>)
      [] c.comm = "Default" -> <<>>

\* SelectHelper::emit_select: the select instruction with the number of
\* clauses, then one descriptor per clause
emit_select(comms) ==
    <<Inst("SELECT", 0, Len(comms))>>
    \o [i \in 1..Len(comms) |-> Inst("COMM", 0, comms[i].comm)]

\* the assignment of a receive clause, as handed to gen_assign
RecvStmt(c, i) ==
    [kind |-> "assign", form |-> "recv", token |-> "ASSIGN", lhs |-> c.lhs,
     rhs |-> [kind |-> "SelectRecv", n |-> 1,
              mode |-> IF c.comm = "RecvCommaOk" THEN "CommaOk" ELSE "Value",
              results |-> 1, typ |-> "Int", named |-> FALSE],
     ltypes |-> [j \in 1..Len(c.lhs) |-> "Int"],
     rtypes |-> [j \in 1..Len(c.lhs) |-> "Int"],
     first |-> TargetBase * i]

\* has_recv_assign for plain receives only
has_recv_assign_single(comm) == comm = "Recv"

\* the clauses whose block starts with the assignment of the received values
has_recv_assign(comm) == comm \in {"Recv", "RecvCommaOk"}

\* second loop of visit_stmt_select, one clause: the receive assignment, the
\* body, and the jump every block but the last ends with
select_block(acc, c, i, last_index) ==
    LET begin == Len(acc.code)
        f1 == IF has_recv_assign(c.comm)
              THEN gen_assign(acc.code, RecvStmt(c, i)).code
              ELSE acc.code
        f2 == f1 \o Flatten([j \in 1..c.body |-> visit_body(i)])
        end == Len(f2)
    IN  IF i < last_index
        THEN [code |-> f2 \o <<Inst("JUMP", 0, 0)>>,
              blocks |-> Append(acc.blocks, [begin |-> begin, end |-> end])]
        ELSE [code |-> f2,
              blocks |-> Append(acc.blocks, [begin |-> begin, end |-> end - 1])]

RECURSIVE select_blocks(_, _, _)
select_blocks(acc, comms, i) ==
    IF i > Len(comms) THEN acc
    ELSE select_blocks(select_block(acc, comms[i], i, Len(comms)), comms, i + 1)

\* SelectHelper::patch_select: each descriptor gets the offset of its block
\* from the first block, each closing jump the distance to the end of the
\* last block
RECURSIVE patch_select(_, _, _, _)
patch_select(f, select_offset, blocks, i) ==
    IF i > Len(blocks) THEN f
    ELSE LET f1 == set_imm(f, select_offset + i,
                           blocks[i].begin - blocks[1].begin)
             f2 == IF i < Len(blocks)
                   THEN set_imm(f1, blocks[i].end,
                                blocks[Len(blocks)].end - blocks[i].end)
                   ELSE f1
         IN  patch_select(f2, select_offset, blocks, i + 1)

\* CodeGen::visit_stmt_select
visit_stmt_select(f, st) ==
    LET n == Len(st.comms)
        f1 == f \o Flatten([i \in 1..n |-> comm_operands(st.comms[i], i)])
        select_offset == Len(f1)
        f2 == f1 \o emit_select(st.comms)
        b == select_blocks([code |-> f2, blocks |-> <<>>], st.comms, 1)
    IN  patch_select(b.code, select_offset, b.blocks, 1)

\* ------------------------------------------------------------------------
\* Execution of the emitted instructions (the stack machine the generator
\* targets)

\* the stack slot at offset idx from the top (-1 is the top)
At(st, idx) ==
    IF Len(st) + 1 + idx \in 1..Len(st) THEN st[Len(st) + 1 + idx]
    ELSE Tag("oob", idx)

PopN(st, n) == SubSeq(st, 1, Max(0, Len(st) - n))

Event(ev, x) == [ev |-> ev, x |-> x]

\* what a STORE addresses: the target (a named slot, or the base value on
\* the stack at lhs.index), the index slot above the base when the target
\* carries a stack index, and the value at rhs_index
StoreEvent(st, a) ==
    Event("store",
          [target |-> IF a.lhs.kind = "Primitive" THEN Tag("var", a.lhs.ent)
                      ELSE At(st, a.lhs.index),
           idx |-> IF a.lhs.kind = "IndexSelExpr" /\ a.lhs.t2
                   THEN At(st, a.lhs.index + 1) ELSE Tag("imm", 0),
           val |-> At(st, a.rhs_index),
           fused |-> a.fused])

\* one instruction of the straight-line part of the instruction set
ExecPlain(ins) ==
    CASE ins.op = "EVAL" ->
           /\ stack' = stack \o ins.arg
           /\ trace' = Append(trace, Event("eval", ins.arg[1]))
      [] ins.op = "STORE" ->
           /\ trace' = Append(trace, StoreEvent(stack, ins.arg))
           /\ UNCHANGED stack
      [] ins.op = "CAST" ->
           /\ trace' = Append(trace, Event("cast", At(stack, ins.arg.index)))
           /\ UNCHANGED stack
      [] ins.op = "UNWRAP" ->
           /\ trace' = Append(trace, Event("unwrap", At(stack, ins.arg)))
           /\ UNCHANGED stack
      [] ins.op = "POP" ->
           /\ stack' = PopN(stack, ins.arg)
           /\ UNCHANGED trace

\* the pairs the RANGE instruction has yielded so far
Yielded == Len(SelectSeq(trace, LAMBDA e : e.ev = "yield"))

\* one instruction of the whole instruction set: the jumps are relative to
\* the position after the instruction
ExecInstr(ins) ==
    CASE ins.op = "JUMP" ->
           /\ pc' = pc + 1 + ins.imm
           /\ UNCHANGED <<stack, trace>>
      [] ins.op = "SWITCH" ->
           \* compares the case value on top with the tag below it and
           \* drops the case value
           /\ pc' = IF At(stack, -1)[2] = At(stack, -2)[2]
                    THEN pc + 1 + ins.imm ELSE pc + 1
           /\ stack' = PopN(stack, 1)
           /\ UNCHANGED trace
      [] ins.op = "BODY" ->
           /\ pc' = pc + 1
           /\ trace' = Append(trace, Event("body", ins.arg))
           /\ UNCHANGED stack
      [] ins.op = "RANGE_INIT" ->
           \* takes the iterable from the stack
           /\ pc' = pc + 1
           /\ stack' = PopN(stack, 1)
           /\ trace' = Append(trace, Event("range_init", At(stack, -1)))
      [] ins.op = "RANGE" ->
           \* yields the next key and value, or leaves the loop
           IF Yielded < stmt.L
           THEN /\ pc' = pc + 1
                /\ stack' = stack \o <<Tag("rhs", 1), Tag("rhs", 2)>>
                /\ trace' = Append(trace, Event("yield", Yielded))
           ELSE /\ pc' = pc + 1 + ins.imm
                /\ trace' = Append(trace, Event("exhausted", Yielded))
                /\ UNCHANGED stack
      [] ins.op = "SELECT" ->
           \* takes the operands of all clauses, chooses a clause, leaves
           \* what it received and enters the clause's block
           \E c \in 1..ins.arg :
               LET comm == code[pc + 1 + c]
                   taken == SeqSum([i \in 1..ins.arg |->
                                CASE code[pc + 1 + i].arg = "Send" -> 2
                                  [] code[pc + 1 + i].arg = "Default" -> 0
                                  [] OTHER -> 1])
                   got == CASE comm.arg = "Recv" -> <<Tag("rhs", 1)>>
                            [] comm.arg = "RecvCommaOk" ->
                                 <<Tag("rhs", 1), Tag("rhs", 2)>>
                            [] OTHER -> <<>>
               IN  /\ pc' = pc + 1 + ins.arg + comm.imm
                   /\ stack' = PopN(stack, taken) \o got
                   /\ trace' = Append(trace, Event("select", c))
      [] OTHER -> ExecPlain(ins) /\ pc' = pc + 1

\* the frame runs the instruction at pc, or ends behind the last one
ExecStep ==
    /\ phase = "run"
    /\ IF pc >= Len(code)
       THEN phase' = "done" /\ UNCHANGED <<pc, stack, trace>>
       ELSE ExecInstr(code[pc + 1]) /\ UNCHANGED phase
    /\ UNCHANGED <<stmt, code, sliceVars, objVars>>

\* ------------------------------------------------------------------------
\* Assignment statements

Rhs(kind, n, mode, results, typ, named) ==
    [kind |-> kind, n |-> n, mode |-> mode, results |-> results,
     typ |-> typ, named |-> named]

\* static types of the targets and of the values: at most one target is of
\* interface type, the others and their values are plain
TypePairs(n) ==
    {[l |-> [i \in 1..n |-> "Int"], r |-> [i \in 1..n |-> "Int"]]}
    \cup {[l |-> [i \in 1..n |-> IF i = at THEN "Interface" ELSE "Int"],
           r |-> [i \in 1..n |-> IF i = at THEN rt ELSE "Int"]] :
             at \in 1..n, rt \in {"Int", "Interface", "Nil"}}

Stmt(form, token, lhs, rhs, tp) ==
    [kind |-> "assign", form |-> form, token |-> token, lhs |-> lhs,
     rhs |-> rhs, ltypes |-> tp.l, rtypes |-> tp.r, first |-> 0]

\* the lists of up to m targets
LhsLists(m) == UNION {[1..n -> LhsKinds] : n \in 1..m}

IsIdents(l) == \A i \in 1..Len(l) : l[i] = "Ident"

\* a statement form over the targets l, where the form allows them, with
\* every typing
StmtsOver(form, token, l, allowed, rhs(_)) ==
    IF allowed
    THEN {Stmt(form, token, l, rhs(l), tp) : tp \in TypePairs(Len(l))}
    ELSE {}

ValuesRhs(l) == Rhs("Values", Len(l), "Value", 1, "Int", FALSE)

CallRhs(l) == Rhs("Values", 1, "Value", Len(l), "Int", FALSE)

CommaOkRhs(l) == Rhs("Values", 1, "CommaOk", 1, "Int", FALSE)

NothingRhs(l) == Rhs("Nothing", 0, "Value", 0, "Int", FALSE)

SelectRecvRhs(l) ==
    Rhs("SelectRecv", 1, IF Len(l) = 2 THEN "CommaOk" ELSE "Value",
        1, "Int", FALSE)

\* the statements over the targets l that gen_assign and gen_def_var are
\* called with
PlainStmts(l) ==
    StmtsOver("plain", "ASSIGN", l, TRUE, ValuesRhs)
    \cup StmtsOver("plain", "DEFINE", l, IsIdents(l), ValuesRhs)

CallStmts(l) == StmtsOver("call", "ASSIGN", l, Len(l) >= 2, CallRhs)

CommaOkStmts(l) == StmtsOver("commaok", "ASSIGN", l, Len(l) <= 2, CommaOkRhs)

CompoundStmts(l) ==
    IF Len(l) # 1 THEN {}
    ELSE {Stmt("compound", t, l, Rhs("Values", 1, "Value", 1, "Int", FALSE),
               [l |-> <<>>, r |-> <<>>]) :
             t \in CompoundTokens \ {"SHL_ASSIGN", "SHR_ASSIGN"}}
         \cup {Stmt("compound", t, l, Rhs("Values", 1, "Value", 1, typ, named),
                    [l |-> <<>>, r |-> <<>>]) :
             t \in {"SHL_ASSIGN", "SHR_ASSIGN"},
             typ \in {"Int", "Uint32"}, named \in BOOLEAN}

IncDecStmts(l) ==
    IF Len(l) # 1 THEN {}
    ELSE {Stmt("incdec", t, l, NothingRhs(l), [l |-> <<>>, r |-> <<>>]) :
             t \in IncDecTokens}

SelectRecvStmts(l) ==
    StmtsOver("recv", "ASSIGN", l, Len(l) <= 2, SelectRecvRhs)

VarDeclStmts(l) ==
    StmtsOver("var", "VAR", l, IsIdents(l), NothingRhs)
    \cup StmtsOver("var", "VAR", l, IsIdents(l), ValuesRhs)
    \cup StmtsOver("var", "VAR", l, IsIdents(l) /\ Len(l) >= 2, CallRhs)

AssignStmts(l) ==
    PlainStmts(l) \cup CallStmts(l) \cup CommaOkStmts(l) \cup CompoundStmts(l)
        \cup IncDecStmts(l) \cup SelectRecvStmts(l) \cup VarDeclStmts(l)

\* the values a select instruction leaves on the stack for a receive clause
RecvValues(st) ==
    IF st.rhs.kind = "SelectRecv"
    THEN [k \in 1..(IF Len(st.lhs) = 2 THEN 2 ELSE 1) |-> Tag("rhs", k)]
    ELSE <<>>

\* what the frame holds on the stack below the statement's own values
FrameSlots == <<Tag("frame", 1), Tag("frame", 2)>>

AssignInit ==
    /\ SliceIdle
    /\ ObjIdle
    /\ \E l \in LhsLists(MaxTargets) : stmt \in AssignStmts(l)
    /\ code = <<>>
    /\ phase = "gen"
    /\ pc = 0
    /\ stack = FrameSlots \o RecvValues(stmt)
    /\ trace = <<>>

\* the generator runs on the statement
GenAssign ==
    /\ phase = "gen"
    /\ stmt.kind = "assign"
    /\ code' = IF stmt.form = "var" THEN gen_def_var(code, stmt).code
               ELSE gen_assign(code, stmt).code
    /\ phase' = "run"
    /\ UNCHANGED <<stmt, pc, stack, trace, sliceVars, objVars>>

\* the emitted code runs, one instruction at a time
ExecAssign == stmt.kind = "assign" /\ ExecStep

AssignNext == GenAssign \/ ExecAssign

SpecAssign == AssignInit /\ [][AssignNext]_vars

\* ---- properties of assignment lowering

Stores == SelectSeq(trace, LAMBDA e : e.ev = "store")

Evals(tag) == SelectSeq(trace, LAMBDA e : e.ev = "eval" /\ e.x = tag)

CodeOps(op) == SelectSeq(code, LAMBDA ins : ins.op = op)

\* the auxiliary stack slots of a target, by the form of its expression
AuxSlots(k) ==
    CASE k = "IndexExpr" -> 2
      [] k \in {"IndexConst", "Field", "Star"} -> 1
      [] OTHER -> 0

\* what a store into target i of form k has to address
OwnTarget(k, i) ==
    IF k \in {"Ident", "PkgMember"} THEN Tag("var", i) ELSE Tag("base", i)

OwnIndex(k, i) == IF k = "IndexExpr" THEN Tag("index", i) ELSE Tag("imm", 0)

AssignDone == phase = "done" /\ stmt.kind = "assign"

\* C2: in a plain or multi-value assignment the i-th store reads the i-th
\* right-hand value and addresses the base (and index) slots of target i.
C2_StoreAddressesOwnTarget ==
    (AssignDone /\ stmt.form \in {"plain", "call"}) =>
        /\ Len(Stores) = Len(stmt.lhs)
        /\ \A i \in 1..Len(stmt.lhs) :
               /\ Stores[i].x.val = Tag("rhs", i)
               /\ Stores[i].x.target = OwnTarget(stmt.lhs[i], i)
               /\ Stores[i].x.idx = OwnIndex(stmt.lhs[i], i)

\* the number of right-hand values a statement leaves on the stack
NumRhsValues(st) ==
    CASE st.form = "incdec" -> 0
      [] st.form = "compound" -> 1
      [] OTHER -> Len(st.lhs)

\* C3: the code of an assignment ends in its only pop, which removes the
\* right-hand values plus the auxiliary slots of the targets, and leaves the
\* stack as deep as it was before the statement.
C3_PopRestoresDepth ==
    AssignDone =>
        /\ stack = FrameSlots
        /\ Len(CodeOps("POP")) = 1
        /\ code[Len(code)].op = "POP"
        /\ code[Len(code)].arg =
               NumRhsValues(stmt)
               + SeqSum([i \in 1..Len(stmt.lhs) |-> AuxSlots(stmt.lhs[i])])

\* a two-target assignment through a stack-indexed element and a pointer,
\* and a select receive into an indexed target, have run
C3_Witness ==
    /\ AssignDone
    /\ \/ stmt.form = "plain" /\ stmt.lhs = <<"IndexExpr", "Star">>
       \/ stmt.form = "recv" /\ stmt.lhs = <<"IndexConst", "IndexExpr">>

\* C4: a compound assignment or ++/-- evaluates the target's base and index
\* once each and the right operand once, then does one fused store on the
\* target as its last effect.
C4_CompoundEvaluatesOnce ==
    (AssignDone /\ stmt.form \in {"compound", "incdec"}) =>
        LET k == stmt.lhs[1]
        IN  /\ Len(Evals(Tag("base", 1))) = (IF AuxSlots(k) >= 1 THEN 1 ELSE 0)
            /\ Len(Evals(Tag("index", 1))) = (IF AuxSlots(k) = 2 THEN 1 ELSE 0)
            /\ Len(Evals(Tag("rhs", 1))) = NumRhsValues(stmt)
            /\ Len(Stores) = 1
            /\ Stores[1].x.fused # "none"
            /\ Stores[1].x.target = OwnTarget(k, 1)
            /\ Stores[1].x.idx = OwnIndex(k, 1)
            /\ stmt.form = "compound" => Stores[1].x.val = Tag("rhs", 1)
            /\ \A j \in 1..Len(trace) :
                   trace[j].ev = "eval" =>
                       \E m \in (j + 1)..Len(trace) : trace[m].ev = "store"

\* a[f()] += 1 has run
C4_Witness ==
    /\ AssignDone
    /\ stmt.form = "compound"
    /\ stmt.lhs = <<"IndexExpr">>
    /\ Len(Evals(Tag("index", 1))) = 1

\* ------------------------------------------------------------------------
\* Switch statements

MaxClauses == 3

\* the value 3 is the value of no case
CaseLists == {<<1>>, <<2>>, <<1, 2>>}

TagVals == {1, 3}

Clauses == [vals : CaseLists \cup {<<>>}, ft : BOOLEAN]

\* at most one default clause, and no fallthrough out of the last clause
SwitchStmts(m) ==
    {[kind |-> "switch", clauses |-> cs, tag |-> t] :
        cs \in {x \in UNION {[1..n -> Clauses] : n \in 1..m} :
                   /\ Cardinality({i \in 1..Len(x) : x[i].vals = <<>>}) <= 1
                   /\ ~x[Len(x)].ft},
        t \in TagVals}

SwitchInit ==
    /\ SliceIdle
    /\ ObjIdle
    /\ stmt \in SwitchStmts(MaxClauses)
    /\ code = <<>>
    /\ phase = "gen"
    /\ pc = 0
    /\ stack = FrameSlots
    /\ trace = <<>>

GenSwitch ==
    /\ phase = "gen"
    /\ stmt.kind = "switch"
    /\ code' = visit_stmt_switch(code, stmt)
    /\ phase' = "run"
    /\ UNCHANGED <<stmt, pc, stack, trace, sliceVars, objVars>>

ExecSwitch == stmt.kind = "switch" /\ ExecStep

SwitchNext == GenSwitch \/ ExecSwitch

SpecSwitch == SwitchInit /\ [][SwitchNext]_vars

\* ---- properties of switch lowering

\* the clause bodies executed so far, in order
Bodies ==
    LET b == SelectSeq(trace, LAMBDA e : e.ev = "body")
    IN  [k \in 1..Len(b) |-> b[k].x]

\* the case clauses one of whose values equals the tag
Matching ==
    {i \in 1..Len(stmt.clauses) :
        \E k \in 1..Len(stmt.clauses[i].vals) : stmt.clauses[i].vals[k] = stmt.tag}

DefaultClauses == {i \in 1..Len(stmt.clauses) : stmt.clauses[i].vals = <<>>}

SwitchDone == phase = "done" /\ stmt.kind = "switch"

\* C5: a tag matching exactly one case, not marked fallthrough, runs that
\* case's body and nothing else, and leaves through the end of the switch.
C5_SingleMatchRunsOnlyThatCase ==
    SwitchDone =>
        \A i \in Matching :
            (Matching = {i} /\ ~stmt.clauses[i].ft) =>
                /\ Bodies = <<i>>
                /\ pc = Len(code)
                /\ stack = FrameSlots

\* the tag matched the middle case of three, with the default before it
C5_Witness ==
    /\ SwitchDone
    /\ Len(stmt.clauses) = 3
    /\ Matching = {2}
    /\ DefaultClauses = {1}
    /\ ~stmt.clauses[2].ft
    /\ Bodies = <<2>>

\* C6: after a body marked fallthrough the body of the next clause in source
\* order runs, whatever that clause is, with no test in between; in the code
\* the fallthrough body is directly followed by the next body.
C6_FallthroughEntersNextBody ==
    /\ SwitchDone =>
           \A k \in 1..Len(Bodies) :
               stmt.clauses[Bodies[k]].ft =>
                   k < Len(Bodies) /\ Bodies[k + 1] = Bodies[k] + 1
    /\ (stmt.kind = "switch" /\ phase # "gen") =>
           \A p \in 1..Len(code) :
               (code[p].op = "BODY" /\ stmt.clauses[code[p].arg].ft) =>
                   code[p + 1].op = "BODY" /\ code[p + 1].arg = code[p].arg + 1

\* a matched case fell through into the default clause
C6_Witness ==
    /\ SwitchDone
    /\ Len(stmt.clauses) = 3
    /\ stmt.clauses[1].ft
    /\ DefaultClauses = {2}
    /\ Bodies = <<1, 2>>

\* C7: a tag matching no case enters the default clause's body if there is
\* one, wherever it stands, and that body alone when it is not marked
\* fallthrough; without a default no body runs and execution resumes after
\* the switch.
C7_NoMatchTakesDefaultOrEnd ==
    (SwitchDone /\ Matching = {}) =>
        /\ \A d \in DefaultClauses :
               /\ Bodies # <<>> /\ Bodies[1] = d
               /\ ~stmt.clauses[d].ft => Bodies = <<d>>
        /\ DefaultClauses = {} => Bodies = <<>>
        /\ pc = Len(code)
        /\ stack = FrameSlots

\* no case matched and the default, first of three clauses, ran alone
C7_Witness ==
    /\ SwitchDone
    /\ Matching = {}
    /\ Len(stmt.clauses) = 3
    /\ DefaultClauses = {1}
    /\ Bodies = <<1>>

\* no case of three matched and there is no default
C7_WitnessNoDefault ==
    /\ SwitchDone
    /\ Matching = {}
    /\ Len(stmt.clauses) = 3
    /\ DefaultClauses = {}
    /\ Bodies = <<>>

\* ------------------------------------------------------------------------
\* Range statements

MaxRangeLen == 3
MaxBody == 2

RangeKinds == LhsKinds \cup {"Blank"}

\* for key, value := range x { body } over a sequence of L elements
RangeStmts ==
    {[kind |-> "range", form |-> "range", token |-> "ASSIGN",
      lhs |-> <<k1, k2>>,
      rhs |-> Rhs("Range", 1, "Value", 1, "Int", FALSE),
      ltypes |-> <<"Int", "Int">>, rtypes |-> <<"Int", "Int">>,
      first |-> 0, L |-> n, body |-> b] :
        k1 \in RangeKinds, k2 \in RangeKinds,
        n \in 0..MaxRangeLen, b \in 0..MaxBody}

RangeInit ==
    /\ SliceIdle
    /\ ObjIdle
    /\ stmt \in RangeStmts
    /\ code = <<>>
    /\ phase = "gen"
    /\ pc = 0
    /\ stack = FrameSlots
    /\ trace = <<>>

GenRange ==
    /\ phase = "gen"
    /\ stmt.kind = "range"
    /\ code' = visit_stmt_range(code, stmt)
    /\ phase' = "run"
    /\ UNCHANGED <<stmt, pc, stack, trace, sliceVars, objVars>>

ExecRange == stmt.kind = "range" /\ ExecStep

RangeNext == GenRange \/ ExecRange

SpecRange == RangeInit /\ [][RangeNext]_vars

\* ---- properties of range lowering

\* the steps and the body statements executed so far, in order
LoopTrace == SelectSeq(trace, LAMBDA e : e.ev \in {"yield", "body"})

\* L rounds of: the step yields pair k, then the body's statements run
ExpectedLoop(L, b) ==
    [m \in 1..(L * (b + 1)) |->
        IF (m - 1) % (b + 1) = 0
        THEN Event("yield", (m - 1) \div (b + 1))
        ELSE Event("body", (m - 1) % (b + 1))]

\* the positions of the RANGE instructions in the code
RangePositions == {p \in 0..(Len(code) - 1) : code[p + 1].op = "RANGE"}

\* C8: the jump closing the body lands on the RANGE step and the step's exit
\* offset lands right behind that jump; so a step yielding L pairs makes the
\* body run exactly L times, in order, and never when L = 0.
C8_RangeLoopsExactlyL ==
    /\ (stmt.kind = "range" /\ phase # "gen") =>
           \E m \in RangePositions :
               /\ RangePositions = {m}
               /\ code[Len(code)].op = "JUMP"
               /\ (Len(code) - 1) + 1 + code[Len(code)].imm = m
               /\ m + 1 + code[m + 1].imm = Len(code)
    /\ (stmt.kind = "range" /\ phase = "done") =>
           /\ LoopTrace = ExpectedLoop(stmt.L, stmt.body)
           /\ pc = Len(code)

\* a loop over three elements ran its two-statement body three times
C8_Witness ==
    /\ stmt.kind = "range" /\ phase = "done"
    /\ stmt.L = 3 /\ stmt.body = 2
    /\ Yielded = 3
    /\ Len(SelectSeq(trace, LAMBDA e : e.ev = "body")) = 6

\* ------------------------------------------------------------------------
\* Select statements

MaxComms == 3

Comms ==
    {[comm |-> "Send", lhs |-> <<>>, body |-> b] : b \in {0, 1}}
    \cup {[comm |-> "RecvNoLhs", lhs |-> <<>>, body |-> b] : b \in {0, 1}}
    \cup {[comm |-> "Default", lhs |-> <<>>, body |-> b] : b \in {0, 1}}
    \cup {[comm |-> "Recv", lhs |-> <<k>>, body |-> b] :
             k \in {"Ident", "Star"}, b \in {0, 1}}
    \cup {[comm |-> "RecvCommaOk", lhs |-> l, body |-> b] :
             l \in {<<"Ident", "IndexExpr">>}, b \in {0, 1}}

\* at most one default clause
SelectStmts(m) ==
    {[kind |-> "select", comms |-> cs] :
        cs \in {x \in UNION {[1..n -> Comms] : n \in 1..m} :
                   Cardinality({i \in 1..Len(x) : x[i].comm = "Default"}) <= 1}}

SelectInit ==
    /\ SliceIdle
    /\ ObjIdle
    /\ stmt \in SelectStmts(MaxComms)
    /\ code = <<>>
    /\ phase = "gen"
    /\ pc = 0
    /\ stack = FrameSlots
    /\ trace = <<>>

GenSelect ==
    /\ phase = "gen"
    /\ stmt.kind = "select"
    /\ code' = visit_stmt_select(code, stmt)
    /\ phase' = "run"
    /\ UNCHANGED <<stmt, pc, stack, trace, sliceVars, objVars>>

ExecSelect == stmt.kind = "select" /\ ExecStep

SelectNext == GenSelect \/ ExecSelect

SpecSelect == SelectInit /\ [][SelectNext]_vars

\* ---- properties of select lowering

SelectEmitted == stmt.kind = "select" /\ phase # "gen"

SelectDone == stmt.kind = "select" /\ phase = "done"

\* the operands of all clauses, in source order
Operands ==
    Flatten([i \in 1..Len(stmt.comms) |->
        CASE stmt.comms[i].comm = "Send" -> <<Tag("chan", i), Tag("sendval", i)>>
          [] stmt.comms[i].comm = "Default" -> <<>>
          [] OTHER -> <<Tag("chan", i)>>])

IsOperand(tag) == tag[1] \in {"chan", "sendval"}

\* the operands evaluated by a sequence of instructions, in order
OperandEvals(f) ==
    LET e == SelectSeq(f, LAMBDA ins : ins.op = "EVAL" /\ IsOperand(ins.arg[1]))
    IN  [k \in 1..Len(e) |-> e[k].arg[1]]

SelectPositions == {p \in 0..(Len(code) - 1) : code[p + 1].op = "SELECT"}

\* the position in the trace of the select instruction's execution
SelectAt == CHOOSE k \in 1..Len(trace) : trace[k].ev = "select"

Chosen == trace[SelectAt].x

\* C9: the operands of every clause are evaluated by code emitted once per
\* clause, in source order, all of it before the one select instruction; so
\* they are evaluated once each whichever clause is chosen.
C9_OperandsOnceBeforeSelect ==
    /\ SelectEmitted =>
           \E s \in SelectPositions :
               /\ SelectPositions = {s}
               /\ OperandEvals(SubSeq(code, 1, s)) = Operands
               /\ OperandEvals(code) = Operands
    /\ SelectDone =>
           LET e == SelectSeq(trace, LAMBDA x : x.ev = "eval" /\ IsOperand(x.x))
           IN  /\ [k \in 1..Len(e) |-> e[k].x] = Operands
               /\ \A k \in 1..Len(trace) :
                      (trace[k].ev = "eval" /\ IsOperand(trace[k].x))
                          => k < SelectAt

\* a send, a receive and a default were lowered and the default was chosen
C9_Witness ==
    /\ SelectDone
    /\ Len(stmt.comms) = 3
    /\ stmt.comms[1].comm = "Send"
    /\ stmt.comms[2].comm = "Recv"
    /\ stmt.comms[3].comm = "Default"
    /\ Chosen = 3

\* where the block of clause i begins: behind the descriptors, at the offset
\* its descriptor carries
BlockBegin(s, i) == s + 1 + Len(stmt.comms) + code[s + 1 + i].imm

\* the code of the block of clause i
Block(s, i) ==
    SubSeq(code, BlockBegin(s, i) + 1,
           IF i < Len(stmt.comms) THEN BlockBegin(s, i + 1) ELSE Len(code))

IsTargetOf(tag, i) ==
    /\ tag[1] \in {"base", "index"}
    /\ tag[2] \in (TargetBase * i + 1)..(TargetBase * i + Len(stmt.comms[i].lhs))

\* the instructions of a sequence that evaluate or store into targets
TargetCode(f) == SelectSeq(f, LAMBDA ins : ins.op \in {"EVAL", "STORE"})

\* C10: the code evaluating and storing into the targets of a receive clause
\* lies in that clause's own block, so it runs only when the clause is the
\* chosen one; every block but the last ends in a jump to the end of the
\* select.
C10_RecvAssignOnlyInOwnBlock ==
    /\ SelectEmitted =>
           \E s \in SelectPositions :
               /\ \A p \in 1..(s + 1 + Len(stmt.comms)) : code[p].op # "STORE"
               /\ \A i \in 1..Len(stmt.comms) :
                      LET b == Block(s, i)
                          t == TargetCode(b)
                      IN  /\ Len(CodeOps("STORE")) =
                                 SeqSum([j \in 1..Len(stmt.comms) |->
                                            Len(stmt.comms[j].lhs)])
                          /\ Len(SelectSeq(b, LAMBDA ins : ins.op = "STORE"))
                                 = Len(stmt.comms[i].lhs)
                          /\ \A k \in 1..Len(t) :
                                 t[k].op = "EVAL" => IsTargetOf(t[k].arg[1], i)
                          /\ i < Len(stmt.comms) =>
                                 /\ b # <<>>
                                 /\ b[Len(b)].op = "JUMP"
                                 /\ BlockBegin(s, i + 1) + b[Len(b)].imm = Len(code)
               /\ Len(CodeOps("JUMP")) = Len(stmt.comms) - 1
    /\ SelectDone =>
           /\ \A k \in 1..Len(trace) :
                  /\ trace[k].ev = "store" => k > SelectAt
                  /\ (trace[k].ev = "eval" /\ ~IsOperand(trace[k].x))
                         => k > SelectAt /\ IsTargetOf(trace[k].x, Chosen)
                  /\ trace[k].ev = "body" => trace[k].x = Chosen
           /\ Len(Stores) = Len(stmt.comms[Chosen].lhs)
           /\ pc = Len(code)
           /\ stack = FrameSlots

\* of two receive clauses with targets the second was chosen and assigned
C10_Witness ==
    /\ SelectDone
    /\ Len(stmt.comms) = 3
    /\ stmt.comms[1].comm = "Recv" /\ stmt.comms[1].lhs = <<"Star">>
    /\ stmt.comms[2].comm = "RecvCommaOk"
    /\ Chosen = 2
    /\ Len(Stores) = 2

\* ------------------------------------------------------------------------
\* Arguments of a call flowing into the parameters
\*
\* A call is [sig_params, variadic, params, ellipsis]: the types of the
\* callee's parameters (the last one is the slice of a variadic callee), the
\* element type of the variadic parameter or NoType, the static types of the
\* argument values, and whether the last argument is spread (f(xs...)).

MaxParams == 2

SlotTypes == {"Int", "IfaceA"}

ValueTypes == {"Int", "Nil", "IfaceA", "IfaceB"}

\* CodeGen::try_cast_params_to_iface
try_cast_params_to_iface(sig_params, variadic, param_types, ellipsis) ==
    LET n == Len(param_types)
        non_variadic_count ==
            IF variadic = NoType THEN Len(sig_params) ELSE Len(sig_params) - 1
        fixed == Flatten([k \in 1..non_variadic_count |->
                     try_cast_to_iface(sig_params[k],
                         IF (k - 1) = n - 1 /\ ellipsis THEN NoType
                         ELSE param_types[k],
                         (k - 1) - n)])
        rest == IF ~ellipsis /\ variadic # NoType
                   /\ underlying_value_type(variadic) = "Interface"
                THEN Flatten([k \in 1..(n - non_variadic_count) |->
                         try_cast_to_iface(variadic,
                             param_types[non_variadic_count + k],
                             (non_variadic_count + k - 1) - n)])
                ELSE <<>>
    IN  fixed \o rest

\* the calls the type checker lets through: enough arguments for the fixed
\* parameters, more only for a variadic callee, a spread slice only as the
\* one argument of the variadic parameter
Calls ==
    {[kind |-> "call", sig_params |-> sp \o (IF v = NoType THEN <<>> ELSE <<"Slice">>),
      variadic |-> v, params |-> ps, ellipsis |-> e] :
        sp \in UNION {[1..n -> SlotTypes] : n \in 0..MaxParams},
        v \in SlotTypes \cup {NoType},
        ps \in UNION {[1..n -> ValueTypes \cup {"Slice"}] : n \in 0..(MaxParams + 1)},
        e \in BOOLEAN}

WellTypedCall(c) ==
    LET fixed == IF c.variadic = NoType THEN Len(c.sig_params)
                 ELSE Len(c.sig_params) - 1
    IN  /\ \A k \in 1..Len(c.params) :
               c.params[k] = "Slice" <=> (c.ellipsis /\ k = Len(c.params))
        /\ c.variadic = NoType => (~c.ellipsis /\ Len(c.params) = fixed)
        /\ c.ellipsis => Len(c.params) = fixed + 1
        /\ Len(c.params) >= fixed

CastInit ==
    /\ SliceIdle
    /\ ObjIdle
    /\ stmt \in {c \in Calls : WellTypedCall(c)}
    /\ code = <<>>
    /\ phase = "gen"
    /\ pc = 0
    /\ stack = <<>>
    /\ trace = <<>>

GenCastParams ==
    /\ phase = "gen"
    /\ stmt.kind = "call"
    /\ code' = code \o try_cast_params_to_iface(stmt.sig_params, stmt.variadic,
                                                stmt.params, stmt.ellipsis)
    /\ phase' = "done"
    /\ UNCHANGED <<stmt, pc, stack, trace, sliceVars, objVars>>

CastNext == GenCastParams

SpecCast == CastInit /\ [][CastNext]_vars

\* the type of the slot argument k of the call flows into
SlotOf(c, k) ==
    IF c.variadic # NoType /\ k >= Len(c.sig_params)
    THEN (IF c.ellipsis THEN "Slice" ELSE c.variadic)
    ELSE c.sig_params[k]

\* the casts emitted for the value at stack offset index
CastsAt(index) ==
    SelectSeq(code, LAMBDA ins : ins.op = "CAST" /\ ins.arg.index = index)

\* C20: a value flowing into a slot of interface type is boxed by a cast to
\* the interface when its static type is neither that interface nor nil, and
\* no cast is emitted for a nil or for a value of that very interface type
\* (nor for a slot that is not of interface type).
C20_CastIntoInterfaceSlot ==
    (stmt.kind = "call" /\ phase = "done") =>
        \A k \in 1..Len(stmt.params) :
            LET slot == SlotOf(stmt, k)
                val == stmt.params[k]
                casts == CastsAt((k - 1) - Len(stmt.params))
            IN  IF /\ underlying_value_type(slot) = "Interface"
                   /\ val # slot
                   /\ val # "Nil"
                THEN casts = emit_cast("Interface", val, (k - 1) - Len(stmt.params))
                ELSE casts = <<>>

\* ------------------------------------------------------------------------
\* All the statement forms that reach gen_assign: the assignments and var
\* declarations, the range statement and the receive clauses of a select

FormsInit == AssignInit \/ RangeInit \/ SelectInit

FormsNext ==
    \/ GenAssign
    \/ ExecAssign
    \/ GenRange
    \/ ExecRange
    \/ GenSelect
    \/ ExecSelect

SpecForms == FormsInit /\ [][FormsNext]_vars

\* the sub-expressions of the targets l in source order: the base of every
\* target that has one, followed by its index when that is not a constant
TargetTags(l, first) ==
    Flatten([i \in 1..Len(l) |->
        CASE AuxSlots(l[i]) = 2 -> <<Tag("base", first + i), Tag("index", first + i)>>
          [] AuxSlots(l[i]) = 1 -> <<Tag("base", first + i)>>
          [] OTHER -> <<>>])

IsTargetTag(tag) == tag[1] \in {"base", "index"}

\* what a sequence of instructions evaluates, in order
EvalTags(f) ==
    LET e == SelectSeq(f, LAMBDA ins : ins.op = "EVAL")
    IN  [k \in 1..Len(e) |-> e[k].arg[1]]

\* what has been evaluated so far, in order
TraceEvalTags ==
    LET e == SelectSeq(trace, LAMBDA x : x.ev = "eval")
    IN  [k \in 1..Len(e) |-> e[k].x]

\* ev starts with the targets' sub-expressions T and evaluates none later
TargetsFirst(ev, T) ==
    /\ Len(ev) >= Len(T)
    /\ SubSeq(ev, 1, Len(T)) = T
    /\ \A k \in (Len(T) + 1)..Len(ev) : ~IsTargetTag(ev[k])

\* C21: outside select receive, the base and index sub-expressions of all
\* targets are evaluated left to right by code that precedes all code of the
\* right-hand side; in a select receive they are evaluated, left to right,
\* only in the block of the clause and so after the select instruction has
\* chosen it.
C21_TargetsBeforeRhs ==
    /\ (stmt.kind \in {"assign", "range"} /\ phase # "gen") =>
           /\ TargetsFirst(EvalTags(code), TargetTags(stmt.lhs, 0))
           /\ stmt.form = "recv" =>
                  EvalTags(code) = TargetTags(stmt.lhs, 0)
           /\ phase = "done" => TraceEvalTags = EvalTags(code)
    /\ SelectEmitted =>
           \E s \in SelectPositions :
               /\ \A k \in 1..s :
                      code[k].op = "EVAL" => ~IsTargetTag(code[k].arg[1])
               /\ \A i \in 1..Len(stmt.comms) :
                      EvalTags(Block(s, i))
                          = TargetTags(stmt.comms[i].lhs, TargetBase * i)
    /\ SelectDone =>
           /\ SelectSeq(TraceEvalTags, IsTargetTag)
                  = TargetTags(stmt.comms[Chosen].lhs, TargetBase * Chosen)
           /\ \A k \in 1..Len(trace) :
                  (trace[k].ev = "eval" /\ IsTargetTag(trace[k].x))
                      => k > SelectAt

\* a[i], s.f, *p = x, y, z has run: four target sub-expressions, then three
\* right-hand values
C21_Witness ==
    /\ AssignDone
    /\ stmt.form = "plain"
    /\ stmt.lhs = <<"IndexExpr", "Field", "Star">>
    /\ Len(TraceEvalTags) = 7

\* a receive clause with an indexed target was chosen and has assigned
C21_WitnessRecv ==
    /\ SelectDone
    /\ stmt.comms[Chosen].comm = "RecvCommaOk"
    /\ Len(stmt.comms) >= 2
    /\ Len(SelectSeq(TraceEvalTags, IsTargetTag)) = 2

\* ========================================================================
\* Identifier resolution (codegen.rs resolve_var_ident, objects.rs
\* try_add_upvalue)
\*
\* func_stack[1] is the package initializer; a function is known to a
\* ValueDesc by its place on the stack.  An entity key stands for one
\* declaration, so a key is a local of at most one function on the stack.

MaxDepth == 4
MaxResolveOps == 6

ResolveKeys == {"x", "y"}

EntUpValue(i) == [kind |-> "UpValue", i |-> i]

EntPackageMember(ident) == [kind |-> "PackageMember", i |-> ident]

\* ValueDesc::new
ValueDesc(ifunc, index) == [func |-> ifunc, index |-> index]

\* FunctionVal::try_add_upvalue: [f, result]
try_add_upvalue(f, entity, uv) ==
    IF entity \in DOMAIN f.entities
    THEN [f |-> f, result |-> f.entities[entity]]
    ELSE [f |-> [f EXCEPT !.up_ptrs = Append(@, uv),
                          !.entities = table_insert(@, entity,
                                           EntUpValue(Len(f.up_ptrs)))],
          result |-> EntUpValue(Len(f.up_ptrs))]

\* the frames searched with the package initializer not skipped
enclosing_frames_with_ctor(fs) == 1..(Len(fs) - 1)

\* the frames the upvalue search of resolve_var_ident walks:
\* func_stack.iter().skip(1).rev().skip(1)
enclosing_frames(fs) == 2..(Len(fs) - 1)

\* CodeGen::resolve_var_ident in the function on top of fs: [fs, result]
resolve_var_ident(fs, key) ==
    LET cur == Len(fs)
        local == entity_index(fs[cur], key)
        holding == {j \in enclosing_frames(fs) :
                       entity_index(fs[j], key) # NoIndex}
    IN  IF local # NoIndex THEN [fs |-> fs, result |-> local]
        ELSE IF holding # {}
        THEN LET ifunc == CHOOSE j \in holding : \A m \in holding : m <= j
                 r == try_add_upvalue(fs[cur], key,
                          ValueDesc(ifunc, entity_index(fs[ifunc], key).i))
             IN  [fs |-> [fs EXCEPT ![cur] = r.f], result |-> r.result]
        ELSE [fs |-> fs, result |-> EntPackageMember(key)]

ResolveTick ==
    /\ nops < MaxResolveOps
    /\ nops' = nops + 1
    /\ UNCHANGED <<slices, vecs, status, genVars, strings, mapVars, upVars, package, func,
                   calls>>

\* a function literal or declaration is entered
ResPushFunc ==
    /\ Len(func_stack) < MaxDepth
    /\ func_stack' = Append(func_stack, FunctionVal_new)
    /\ lastOp' = [op |-> "push_func"]
    /\ ResolveTick

\* the function on top is finished
ResPopFunc ==
    /\ Len(func_stack) > 1
    /\ func_stack' = SubSeq(func_stack, 1, Len(func_stack) - 1)
    /\ lastOp' = [op |-> "pop_func"]
    /\ ResolveTick

\* a declaration in the function on top: add_local_or_resolve_ident with
\* is_def
ResAddLocal ==
    \E key \in ResolveKeys :
        LET cur == Len(func_stack)
            r == add_local(func_stack[cur], key)
        IN  /\ \A j \in 1..cur : key \notin DOMAIN func_stack[j].entities
            /\ r.f.local_alloc <= MaxLocals
            /\ func_stack' = [func_stack EXCEPT ![cur] = r.f]
            /\ lastOp' = [op |-> "add_local", key |-> key, result |-> r.result]
            /\ ResolveTick

\* a use of an identifier in the function on top
ResResolve ==
    \E key \in ResolveKeys :
        LET r == resolve_var_ident(func_stack, key)
        IN  /\ func_stack' = r.fs
            /\ lastOp' = [op |-> "resolve", key |-> key, result |-> r.result,
                          old |-> func_stack]
            /\ ResolveTick

ResolveInit ==
    /\ SliceIdle
    /\ MapIdle
    /\ UpIdle
    /\ PkgIdle
    /\ GenIdle
    /\ func = FunctionVal_new
    /\ func_stack = <<FunctionVal_new>>
    /\ calls = <<>>
    /\ StrIdle

ResolveNext ==
    \/ ResPushFunc
    \/ ResPopFunc
    \/ ResAddLocal
    \/ ResResolve

SpecResolve == ResolveInit /\ [][ResolveNext]_vars

Resolved == lastOp.op = "resolve"

\* the frames between the package initializer and the requesting function
\* that held the identifier before the resolution
HoldingBefore ==
    {j \in 2..(Len(lastOp.old) - 1) : lastOp.key \in DOMAIN lastOp.old[j].entities}

Innermost == CHOOSE j \in HoldingBefore : \A m \in HoldingBefore : m <= j

\* C22: an identifier of the current function's entity table resolves to
\* its entry there; otherwise, if a frame between the package initializer
\* and the current function holds it, the innermost such frame and its slot
\* are registered as an upvalue descriptor in the current function and the
\* upvalue's index is returned; otherwise the result is a package member.
C22_ThreeTierResolution ==
    Resolved =>
        LET old == lastOp.old
            cur == Len(old)
            key == lastOp.key
            res == lastOp.result
        IN  IF key \in DOMAIN old[cur].entities
            THEN /\ res = old[cur].entities[key]
                 /\ func_stack = old
            ELSE IF HoldingBefore # {}
            THEN /\ res.kind = "UpValue"
                 /\ res.i = Len(old[cur].up_ptrs)
                 /\ func_stack[cur].up_ptrs =
                        Append(old[cur].up_ptrs,
                               ValueDesc(Innermost, old[Innermost].entities[key].i))
                 /\ func_stack[cur].entities[key] = res
                 /\ \A j \in 1..(cur - 1) : func_stack[j] = old[j]
            ELSE /\ res = EntPackageMember(key)
                 /\ func_stack = old

\* the third function resolved an identifier that the first one declares
\* and the second one has captured: the second one's upvalue is named
C22_Witness ==
    /\ Resolved
    /\ Len(lastOp.old) = 4
    /\ HoldingBefore = {2, 3}
    /\ lastOp.result = EntUpValue(0)
    /\ func_stack[4].up_ptrs = <<ValueDesc(3, 0)>>

\* a variable of the package initializer resolved as a package member from
\* a nested function
C22_WitnessPackage ==
    /\ Resolved
    /\ Len(lastOp.old) = 3
    /\ lastOp.key \in DOMAIN lastOp.old[1].entities
    /\ lastOp.result = EntPackageMember(lastOp.key)

\* C25: after an identifier is resolved as an upvalue of a frame two or more
\* levels out, every function between that frame and the requesting one
\* holds an upvalue for the identifier too.
C25_CaptureChainUnbroken ==
    (Resolved /\ lastOp.result.kind = "UpValue" /\ HoldingBefore # {}) =>
        \A m \in (Innermost + 1)..(Len(func_stack) - 1) :
            /\ lastOp.key \in DOMAIN func_stack[m].entities
            /\ func_stack[m].entities[lastOp.key].kind = "UpValue"

\* ========================================================================
\* Labeled statements (codegen.rs visit_stmt_labeled)
\*
\* A labeled statement is [kind, label, inner]: the label's entity and the
\* kind of the statement it labels.  The code generated before it is a
\* number of opaque statements.

MaxPrior == 2

LabelKeys == {"L1", "L2"}

\* the kinds of statement a label can stand before
StmtKinds ==
    {"Decl", "Empty", "Labeled", "Expr", "Send", "IncDec", "Assign", "Go",
     "Defer", "Return", "Branch", "Block", "If", "Switch", "TypeSwitch",
     "Select", "For", "Range"}

\* the match of visit_stmt_labeled on the labeled statement
is_breakable(inner) == inner \in {"For", "Range", "Select", "Switch"}

\* CodeGen::visit_stmt_labeled: the label it hands to
\* BranchHelper::add_label, and the code of the labeled statement
visit_stmt_labeled(f, st) ==
    [label |-> [entity |-> st.label, offset |-> Len(f),
                is_breakable |-> is_breakable(st.inner)],
     code |-> f \o visit_body(1)]

LabelInit ==
    /\ SliceIdle
    /\ ObjIdle
    /\ stmt \in {[kind |-> "labeled", label |-> l, inner |-> k] :
                    l \in LabelKeys, k \in StmtKinds}
    /\ code \in {[j \in 1..n |-> Inst("BODY", 0, 0)] : n \in 0..MaxPrior}
    /\ phase = "gen"
    /\ pc = 0
    /\ stack = <<>>
    /\ trace = <<>>

GenLabeled ==
    /\ phase = "gen"
    /\ stmt.kind = "labeled"
    /\ LET r == visit_stmt_labeled(code, stmt)
       IN  /\ code' = r.code
           /\ lastOp' = [op |-> "add_label", label |-> r.label]
    /\ phase' = "done"
    /\ UNCHANGED <<stmt, pc, stack, trace, slices, vecs, status, nops, objVars>>

LabelNext == GenLabeled

SpecLabel == LabelInit /\ [][LabelNext]_vars

\* C23: a label is registered as breakable exactly when it labels a for,
\* range, switch, type-switch or select statement.
C23_BreakableLabels ==
    (stmt.kind = "labeled" /\ lastOp.op = "add_label") =>
        /\ lastOp.label.entity = stmt.label
        /\ lastOp.label.is_breakable <=>
               stmt.inner \in {"For", "Range", "Switch", "TypeSwitch", "Select"}

\* ========================================================================
\* Selector expressions (codegen.rs visit_expr_selector)
\*
\* A selector is [stype, recv, embedded, index]: the kind of selection, the
\* static type of the operand ("T" a named struct, "PtrT" a pointer to it,
\* "I" an interface), whether the member is reached through an embedded
\* field, and the final index (of the method or the field).  code is the
\* code of the function stmt.fkey.

MaxSelectors == 3

SelectionTypes == {"MethodNonPtrRecv", "MethodPtrRecv", "NonMethod"}

RecvTypes == {"T", "PtrT", "I"}

MethodIndices == {0, 1}

\* GosMetadata::value_type
meta_value_type(m) ==
    CASE m = "T" -> "Struct"
      [] m = "PtrT" -> "Pointer"
      [] m = "I" -> "Interface"

\* GosMetadata::ptr_to and GosMetadata::unptr_to
ptr_to(m) == IF m = "T" THEN "PtrT" ELSE m

unptr_to(m) == IF m = "PtrT" THEN "T" ELSE m

\* the closure get_recv_prep of visit_expr_selector
get_recv_prep(stype, typ) ==
    IF stype = "MethodPtrRecv" /\ typ # "Pointer" THEN "Ref"
    ELSE IF stype = "MethodNonPtrRecv" /\ typ = "Pointer" THEN "Deref"
    ELSE "Default"

\* the operand part of visit_expr_selector: the code that leaves the
\* receiver on the stack, and the type the receiver then has
selector_operand(sel) ==
    LET prep == get_recv_prep(sel.stype, meta_value_type(sel.recv))
    IN  IF ~sel.embedded
        THEN CASE prep = "Default" ->
                    [code |-> visit_expr(<<Tag("recv", 0)>>), meta |-> sel.recv]
               [] prep = "Ref" ->
                    [code |-> visit_expr(<<Tag("recv", 0)>>)
                              \o <<Inst("REF", 0, 0)>>,
                     meta |-> sel.recv]
               [] prep = "Deref" ->
                    [code |-> visit_expr(<<Tag("recv", 0)>>)
                              \o <<Inst("DEREF", 0, 0)>>,
                     meta |-> unptr_to(sel.recv)]
        ELSE CASE prep = "Ref" ->
                    [code |-> visit_expr(<<Tag("recv", 0)>>)
                              \o <<Inst("REF_STRUCT_FIELD", 0, 0)>>,
                     meta |-> ptr_to(sel.recv)]
               [] prep = "Deref" ->
                    [code |-> visit_expr(<<Tag("recv", 0)>>)
                              \o <<Inst("LOAD_STRUCT_FIELD", 0, 0),
                                   Inst("DEREF", 0, 0)>>,
                     meta |-> unptr_to(sel.recv)]
               [] prep = "Default" ->
                    [code |-> visit_expr(<<Tag("recv", 0)>>)
                              \o <<Inst("LOAD_STRUCT_FIELD", 0, 0)>>,
                     meta |-> sel.recv]

\* CallHelper::add_call
add_call(cs, fkey, point, meta, index) ==
    Append(cs, [func |-> fkey, offset |-> point, meta |-> meta, index |-> index])

\* bind_method with the fixup point taken before the bind instruction
bind_method_point_early(f, cs, fkey, meta, index) ==
    [code |-> f \o <<Inst("BIND_METHOD", 0, meta), Inst("RAW", 0, 0)>>,
     calls |-> add_call(cs, fkey, Len(f), meta, index)]

\* the concrete-receiver arm of visit_expr_selector: the bind instruction,
\* the placeholder for the FunctionKey, and the fixup entry
bind_method(f, cs, fkey, meta, index) ==
    LET f1 == f \o <<Inst("BIND_METHOD", 0, meta)>>
        point == Len(f1)
    IN  [code |-> f1 \o <<Inst("RAW", 0, 0)>>,
         calls |-> add_call(cs, fkey, point, meta, index)]

\* CodeGen::visit_expr_selector for a selector that is not a package member
visit_expr_selector(f, cs, fkey, sel) ==
    LET o == selector_operand(sel)
        f1 == f \o o.code
    IN  IF sel.stype = "NonMethod"
        THEN [code |-> f1 \o <<Inst("LOAD_STRUCT_FIELD", sel.index, o.meta)>>,
              calls |-> cs]
        ELSE IF meta_value_type(o.meta) = "Interface"
        THEN [code |-> f1 \o <<Inst("BIND_INTERFACE_METHOD", sel.index, o.meta)>>,
              calls |-> cs]
        ELSE bind_method(f1, cs, fkey, o.meta, sel.index)

\* the selections the type checker produces: an interface has methods only,
\* reached directly
Selectors ==
    {sel \in [stype : SelectionTypes, recv : RecvTypes, embedded : BOOLEAN,
              index : MethodIndices] :
        sel.recv = "I" => (sel.stype = "MethodNonPtrRecv" /\ ~sel.embedded)}

SelectorInit ==
    /\ SliceIdle
    /\ ObjIdle
    /\ stmt \in {[kind |-> "selectors", fkey |-> k] : k \in {1, 2}}
    /\ code = <<>>
    /\ phase = "gen"
    /\ pc = 0
    /\ stack = <<>>
    /\ trace = <<>>

VisitSelector ==
    \E sel \in Selectors :
        LET r == visit_expr_selector(code, calls, stmt.fkey, sel)
        IN  /\ phase = "gen"
            /\ stmt.kind = "selectors"
            /\ nops < MaxSelectors
            /\ nops' = nops + 1
            /\ code' = r.code
            /\ calls' = r.calls
            /\ lastOp' = [op |-> "selector", sel |-> sel, code |-> code,
                          calls |-> calls]
            /\ UNCHANGED <<stmt, phase, pc, stack, trace, slices, vecs, status,
                           mapVars, upVars, package, func, func_stack, strings>>

SelectorNext == VisitSelector

SpecSelector == SelectorInit /\ [][SelectorNext]_vars

\* the positions of an instruction in the code, from 0
PositionsOf(op) == {p \in 0..(Len(code) - 1) : code[p + 1].op = op}

\* the receiver a selector's method is bound to is an interface
OnInterface(sel) ==
    meta_value_type(selector_operand(sel).meta) = "Interface"

\* C24: a method selector on a concrete receiver emits BIND_METHOD directly
\* followed by one placeholder and records one fixup entry (function, offset,
\* receiver type, method index) whose offset is the placeholder's position;
\* a method selector on an interface receiver emits BIND_INTERFACE_METHOD
\* with the method index and records nothing.
C24_BindMethodFixup ==
    /\ stmt.kind = "selectors" =>
           /\ Len(calls) = Cardinality(PositionsOf("BIND_METHOD"))
           /\ Cardinality(PositionsOf("RAW")) = Len(calls)
           /\ \A p \in PositionsOf("BIND_METHOD") :
                  /\ p + 1 < Len(code)
                  /\ code[p + 2].op = "RAW"
                  /\ Cardinality({c \in 1..Len(calls) :
                                     calls[c].offset = p + 1}) = 1
           /\ \A c \in 1..Len(calls) :
                  /\ calls[c].func = stmt.fkey
                  /\ calls[c].offset \in PositionsOf("RAW")
                  /\ calls[c].offset - 1 \in PositionsOf("BIND_METHOD")
                  /\ code[calls[c].offset].arg = calls[c].meta
    /\ (lastOp.op = "selector" /\ lastOp.sel.stype # "NonMethod") =>
           IF OnInterface(lastOp.sel)
           THEN /\ calls = lastOp.calls
                /\ code[Len(code)].op = "BIND_INTERFACE_METHOD"
                /\ code[Len(code)].imm = lastOp.sel.index
                /\ SubSeq(code, Len(lastOp.code) + 1, Len(code) - 1)
                       = selector_operand(lastOp.sel).code
           ELSE /\ SubSeq(code, Len(code) - 1, Len(code))
                       = <<Inst("BIND_METHOD", 0, selector_operand(lastOp.sel).meta),
                           Inst("RAW", 0, 0)>>
                /\ calls = Append(lastOp.calls,
                              [func |-> stmt.fkey, offset |-> Len(code) - 1,
                               meta |-> selector_operand(lastOp.sel).meta,
                               index |-> lastOp.sel.index])
    /\ (lastOp.op = "selector" /\ lastOp.sel.stype = "NonMethod") =>
           calls = lastOp.calls

\* after a method of an interface and a method of a struct were bound, a
\* pointer-receiver method is bound on an embedded struct
C24_Witness ==
    /\ lastOp.op = "selector"
    /\ lastOp.sel.stype = "MethodPtrRecv"
    /\ lastOp.sel.embedded
    /\ Len(lastOp.calls) = 1
    /\ Len(calls) = 2
    /\ PositionsOf("BIND_INTERFACE_METHOD") # {}
    /\ calls[2].offset > calls[1].offset + 2

\* ========================================================================
\* StringObj (vm/src/objects.rs)
\*
\* A string is [data, begin, end]: the shared text (Rc<String>) and the
\* window on it.  The text is a sequence of characters; positions count
\* from 0.

MaxStrings == 3
MaxStrLen == 3

Chars == {"a", "b"}

\* StringObj::with_str
with_str(data) == [data |-> data, begin |-> 0, end |-> Len(data)]

\* StringObj::len
str_len(s) == s.end - s.begin

\* StringObj::as_str: data[begin..end]; the range must lie in the text
as_str(s) == SubSeq(s.data, s.begin + 1, s.end)

str_in_range(s) == s.begin <= s.end /\ s.end <= Len(s.data)

\* StringObj::slice
str_slice(s, b, e) ==
    LET self_len == str_len(s) + 1
        ei == (self_len + e) % self_len
    IN  [data |-> s.data, begin |-> b, end |-> ei]

StringTick ==
    /\ status = "ok"
    /\ Len(strings) < MaxStrings
    /\ UNCHANGED <<slices, vecs, nops, genVars, mapVars, upVars, package, funcVars>>

StrWithStr ==
    \E data \in SeqsUpTo(Chars, MaxStrLen) :
        /\ strings' = Append(strings, with_str(data))
        /\ lastOp' = [op |-> "with_str", s |-> Len(strings) + 1]
        /\ UNCHANGED status
        /\ StringTick

\* slice(b, e) is called with 0 <= b <= e <= len(), where -1 stands for an
\* end of len(); as_str of a window outside the text panics
StrSlice ==
    \E i \in 1..Len(strings) :
        \E b \in 0..str_len(strings[i]), e \in (-1)..str_len(strings[i]) :
            LET s == strings[i]
                r == str_slice(s, b, e)
            IN  /\ b <= (IF e = -1 THEN str_len(s) ELSE e)
                /\ strings' = Append(strings, r)
                /\ lastOp' = [op |-> "str_slice", s |-> Len(strings) + 1,
                              from |-> i, b |-> b, e |-> e]
                /\ status' = IF str_in_range(r) THEN "ok" ELSE "panic"
                /\ StringTick

StringInit ==
    /\ SliceIdle
    /\ ObjIdle
    /\ GenIdle

StringNext ==
    \/ StrWithStr
    \/ StrSlice

SpecString == StringInit /\ [][StringNext]_vars

\* C29: slice(b, e) of a string yields the characters b..e of the
\* receiver's own text, also when the receiver is a sub-string that begins
\* at an offset a > 0 of the shared text: s.slice(a, -1).slice(b, e) is
\* s.slice(a + b, a + e).
C29_StringSliceRelative ==
    lastOp.op = "str_slice" =>
        LET from == strings[lastOp.from]
            r == strings[lastOp.s]
            e == IF lastOp.e = -1 THEN str_len(from) ELSE lastOp.e
        IN  /\ status = "ok"
            /\ as_str(r) = SubSeq(as_str(from), lastOp.b + 1, e)
            /\ r.begin = from.begin + lastOp.b
            /\ r.end = from.begin + e

=============================================================================
